---- MODULE Spec2Model ----
(***************************************************************************)
(* Statement-label scope and structured-construct bookkeeping of Sema.     *)
(*                                                                         *)
(* Statements live in an arena; Stmts is the part of it that holds the     *)
(* statements of the program unit being parsed, the only ones the state of *)
(* Sema refers to.  A Stmt* is the 1-based index of the statement in Stmts *)
(* and 0 is the null pointer, which is also what StmtError() yields.  A    *)
(* statement-label expression is modelled by the value of its integer      *)
(* literal, 0 standing for "no label".                                     *)
(***************************************************************************)
EXTENDS Integers, Sequences, FiniteSets, TLC

\* Bounds of the exploration.
MaxStmts == 2      \* statements of one unit outside the IF family
MaxIfStmts == 3    \* IF, ELSE IF, ELSE and END IF statements of one unit
MaxRefs == 2       \* label references made by the statements of one unit
MaxLabel == 2      \* statement labels are 1..MaxLabel
MaxAssign == 1     \* assignment statements of one unit
MaxLetters == 3    \* IMPLICIT letter specs range over the first letters
MaxDeclContexts == 2  \* declaration contexts created besides the translation unit
MaxVarDecls == 2   \* variables declared
MaxTokens == 3     \* raw tokens of a buffer
MaxDepth == 2      \* operators nested in an expression
MaxExponent == 3   \* the largest exponent of ** that is evaluated
MaxDims == 2       \* sections of an array
MaxSize == 2       \* the size of a range section
MaxDiags == 1      \* diagnostics of each severity reported on an input file
MaxCalls == 5       \* calls of ParseProgramUnit that are followed
MaxNesting == 3     \* statement function calls nested in one another
MaxArgs == 2        \* arguments of a function
MaxRank == 3        \* dimensions of an array reference
MaxSpaceBits == 1   \* the one-bit address spaces that are tried are below 2^MaxSpaceBits

Labels == 1..MaxLabel

VARIABLES
  Stmts,                         \* statement records of the current unit
  StmtLabelDeclsInScope,         \* set of <<key, stmt>> pairs (std::map)
  ForwardStmtLabelDeclsInScope,  \* sequence of StmtLabelForwardDecl
  IfStmtStack,                   \* sequence of Stmt*, top is the last
  DoStmtList,                    \* sequence of Stmt*
  Diags,                         \* diagnostics reported by the last call
  Last,                          \* the last call: operation, inputs, result
  Phase,                         \* where the parser is in the program unit
  AssertFailed,                  \* an assert of PushExecutableProgramUnit failed
  \* history variables, written but never read by the operations
  Enqueued,                      \* forward references enqueued in this unit
  PopTrace,                      \* what the last end-of-unit did per reference
  ElseOpen,                      \* IF statements for which an ELSE was accepted
  \* declaration contexts
  CurContext,                    \* Sema::CurContext, 0 is the null pointer
  DeclContexts,                  \* the DeclContext objects created so far
  VarDecls,                      \* the VarDecl objects created so far
  FETokenInfo,                   \* IdentifierInfo -> its front-end payload
  DeclAssertFailed,              \* the asserts on declaration contexts that failed
  Entered,                       \* history: contexts entered and not yet exited
  \* one ImplicitTypingScope
  None,                          \* ImplicitTypingScope::None
  Rules,                         \* ImplicitTypingScope::Rules, <<letter, type>>
  \* the parser's token stream
  Source,                        \* the raw tokens of the buffer, in order
  LexPos,                        \* TheLexer: index of the next raw token
  Tok,                           \* Parser::Tok, the current token
  NextTok,                       \* Parser::NextTok, the lookahead
  Produced,                      \* history: Tok after each Parser::Lex
  \* the constant-expression evaluator
  ThisExpr,                      \* the Expr that EvaluateAsInt is called on
  EvalPhase,                     \* "built", "returned" or "trapped"
  Success,                       \* what Expr::EvaluateAsInt returned
  IntResult,                     \* the int64_t Result it stored, as a 64-bit word
  \* ArrayLoopEmmitter, the code it emits, and a run of that code
  Sections,                      \* ArrayLoopEmmitter::Sections
  Elements,                      \* ArrayLoopEmmitter::Elements, 0 is nullptr
  Loops,                         \* ArrayLoopEmmitter::Loops
  Blocks,                        \* the basic blocks, each a sequence of instructions
  InsertBlock,                   \* the builder's insertion block, 0 when cleared
  EmitPhase,                     \* how far the emission of the loop nest is
  PC,                            \* the run: block and index of the next instruction
  Memory,                        \* the run: the value of each loop counter
  Registers,                     \* the run: the value of each Elements[I]
  Visited,                       \* history: Elements at each run of the loop body
  \* the driver
  Options,                       \* the command line options
  Input,                         \* what the input file is: it opens, its diagnostics
  Copy,                          \* which of the two drivers of Main.cpp is built
  DriverPC,                      \* where main is
  CodeGens,                      \* the code generators created
  OutputFiles,                   \* main's OutputFiles
  Written,                       \* the outputs written, in order
  Commands,                      \* the commands handed to system()
  ExitStatus,                    \* what main returned
  \* one Qualifiers object
  Mask,                          \* Qualifiers::Mask, the set of the bits that are 1
  QLast,                         \* history: the last setter, its argument, Mask before it
  \* the element offset of an array reference
  ArraySections,                 \* Array.Sections of the reference
  ElementValues,                 \* the value of each Elements[I] in the loop body
  ElementOffset,                 \* the value EmitElementOffset computes, -1 before
  \* a function type and a call of the function
  Formals,                       \* the formals: type and ABIArgInfo of each
  ArgTypes,                      \* ConvertArgumentType's ArgTypes
  AdditionalArgTypes,            \* ConvertArgumentType's AdditionalArgTypes
  Args,                          \* CallArgList: the values added
  AdditionalArgs,                \* CallArgList: the additional values added
  FormalCounts,                  \* history: the types pushed for each formal
  ActualCounts,                  \* history: the values added for each actual
  \* the inlining of statement functions
  InlineScopes,                  \* the live StatementFunctionInliningScope objects
  CurInlinedStmtFunc,            \* CodeGenFunction::CurInlinedStmtFunc, 0 is nullptr
  InlineTrace,                   \* history: the calls that have not returned
  InlinedQuery,                  \* history: the last GetInlinedArgumentValue
  \* Parser::ParseProgramUnits
  UnitTokens,                    \* the tokens Parser::Lex yields, in order
  UnitPos,                       \* the index in UnitTokens of Parser::Tok
  UnitLoop,                      \* "running" or "exited": the while loop
  UnitCalls,                     \* the calls of ParseProgramUnit made
  UnitLast                       \* history: the last call, its result and the tokens it consumed

unitVars == <<Stmts, StmtLabelDeclsInScope, ForwardStmtLabelDeclsInScope,
              IfStmtStack, DoStmtList, Diags, Last, Phase, AssertFailed,
              Enqueued, PopTrace, ElseOpen>>

declVars == <<CurContext, DeclContexts, VarDecls, FETokenInfo,
              DeclAssertFailed, Entered>>

scopeVars == <<None, Rules>>

lexVars == <<Source, LexPos, Tok, NextTok, Produced>>

evalVars == <<ThisExpr, EvalPhase, Success, IntResult>>

loopVars == <<Sections, Elements, Loops, Blocks, InsertBlock, EmitPhase, PC,
              Memory, Registers, Visited>>

driverVars == <<Options, Input, Copy, DriverPC, CodeGens, OutputFiles,
                Written, Commands, ExitStatus>>

\* What the front end and the loop emitter never touch.
qualVars == <<Mask, QLast>>

offsetVars == <<ArraySections, ElementValues, ElementOffset>>

abiVars == <<Formals, ArgTypes, AdditionalArgTypes, Args, AdditionalArgs,
             FormalCounts, ActualCounts>>

inlineVars == <<InlineScopes, CurInlinedStmtFunc, InlineTrace, InlinedQuery>>

programVars == <<UnitTokens, UnitPos, UnitLoop, UnitCalls, UnitLast>>

restVars == <<driverVars, qualVars, offsetVars, abiVars, inlineVars, programVars>>

\* What each of these parts leaves alone of the others.
asideDriver == <<qualVars, offsetVars, abiVars, inlineVars, programVars>>
asideQualifiers == <<driverVars, offsetVars, abiVars, inlineVars, programVars>>
asideReference == <<driverVars, qualVars, abiVars, inlineVars, programVars>>
asideCall == <<driverVars, qualVars, offsetVars, inlineVars, programVars>>
asideInlining == <<driverVars, qualVars, offsetVars, abiVars, programVars>>
asideProgramUnits == <<driverVars, qualVars, offsetVars, abiVars, inlineVars>>

\* What Sema never touches.
otherVars == <<lexVars, evalVars, loopVars, restVars>>

\* What the actions on the statements of a unit leave alone.
nonUnitVars == <<declVars, scopeVars, otherVars>>

vars == <<unitVars, declVars, scopeVars, otherVars>>

semaVars == <<Stmts, StmtLabelDeclsInScope, ForwardStmtLabelDeclsInScope,
              IfStmtStack, DoStmtList>>

----------------------------------------------------------------------------
\* Statements

\* Stmt::Create and the Create functions of its subclasses.  Construct is a
\* history field telling which production built an IfStmt.
NewStmt(id, label) ==
  [ID |-> id, StmtLabel |-> label, Destination |-> 0, Address |-> 0,
   AllowedValues |-> <<>>, TerminatingStmt |-> 0, ThenStmt |-> 0,
   ElseStmt |-> 0, Construct |-> ""]

\* A diagnostic: its id, its location (a statement or a label) and argument.
Diag(id, loc, arg) == [ID |-> id, Loc |-> loc, Arg |-> arg]

\* The record of a call.
Call(op, label, target, allowed, ok, result) ==
  [Op |-> op, StmtLabel |-> label, Target |-> target, Allowed |-> allowed,
   OK |-> ok, Result |-> result]

\* The record of a call that is not about a statement.
Called(op, args, result) == [Op |-> op, Args |-> args, Result |-> result]

----------------------------------------------------------------------------
\* StmtLabelScope

\* The literal's value; labels have at most five digits, so getLimitedValue
\* never saturates.
GetStmtLabelValue(E) == E

\* std::map::insert keeps the existing element when the key is present.
Declare(map, StmtLabel, Statement) ==
  LET Key == GetStmtLabelValue(StmtLabel)
  IN IF \E p \in map : p[1] = Key THEN map
     ELSE map \cup {<<Key, Statement>>}

ResolveIn(map, StmtLabel) ==
  LET Key == GetStmtLabelValue(StmtLabel)
  IN IF \E p \in map : p[1] = Key
     THEN (CHOOSE p \in map : p[1] = Key)[2]
     ELSE 0

Resolve(StmtLabel) == ResolveIn(StmtLabelDeclsInScope, StmtLabel)

StmtLabelForwardDecl(StmtLabel, Statement, Callback, Data) ==
  [StmtLabel |-> StmtLabel, Statement |-> Statement,
   ResolveCallback |-> Callback, ResolveCallbackData |-> Data]

\* A DeclareForwardReference that puts the reference at the front.
DeclareForwardReference_Front(list, Reference) == <<Reference>> \o list

DeclareForwardReference(list, Reference) == Append(list, Reference)

\* StmtLabelScope::reset
resetDecls == {}
resetForwardDecls == <<>>

----------------------------------------------------------------------------
\* Sema::DeclareStatementLabel, called as `if(StmtLabel) Declare...`

\* A DeclareStatementLabel that lets the later statement take the label.
DeclareStatementLabelMap_Overwrite(StmtLabel, S) ==
  {p \in StmtLabelDeclsInScope : p[1] # GetStmtLabelValue(StmtLabel)}
    \cup {<<GetStmtLabelValue(StmtLabel), S>>}

DeclareStatementLabelMap(StmtLabel, S) ==
  IF Resolve(StmtLabel) # 0 THEN StmtLabelDeclsInScope
  ELSE Declare(StmtLabelDeclsInScope, StmtLabel, S)

DeclareStatementLabelDiags(StmtLabel) ==
  IF Resolve(StmtLabel) # 0
  THEN <<Diag("err_redefinition_of_stmt_label", StmtLabel, StmtLabel)>>
  ELSE <<>>

\* The tail of every ActOn...: `if(StmtLabel) DeclareStatementLabel(...)`.
DeclareLabelOf(StmtLabel, S, before) ==
  /\ StmtLabelDeclsInScope' =
       IF StmtLabel # 0 THEN DeclareStatementLabelMap(StmtLabel, S)
       ELSE StmtLabelDeclsInScope
  /\ Diags' = before \o
       (IF StmtLabel # 0 THEN DeclareStatementLabelDiags(StmtLabel) ELSE <<>>)

InBody == Phase = "body"
IfFamily == {i \in 1..Len(Stmts) : Stmts[i].ID \in {"If", "Else", "EndIf"}}
CanBuild == Len(Stmts) - Cardinality(IfFamily) < MaxStmts
CanBuildIf == Cardinality(IfFamily) < MaxIfStmts
\* The label references made by the statements of the unit so far.
RECURSIVE RefsMade(_)
RefsMade(I) ==
  IF I = 0 THEN 0
  ELSE RefsMade(I - 1) +
       (IF Stmts[I].ID \in {"Goto", "Assign", "Do"} THEN 1
        ELSE Len(Stmts[I].AllowedValues))
CanRefer(n) == CanBuild /\ RefsMade(Len(Stmts)) + n <= MaxRefs
OptLabels == {0} \cup Labels

----------------------------------------------------------------------------
\* Statements that only build a node and declare its label

SimpleStmt(op, id, StmtLabel, unit) ==
  LET Result == Len(unit) + 1
  IN /\ Stmts' = Append(unit, NewStmt(id, StmtLabel))
     /\ DeclareLabelOf(StmtLabel, Result, <<>>)
     /\ Last' = Call(op, StmtLabel, 0, <<>>, TRUE, Result)
     /\ UNCHANGED <<ForwardStmtLabelDeclsInScope, IfStmtStack, DoStmtList,
                    AssertFailed, Enqueued, PopTrace, ElseOpen>>

ActOnContinueStmt ==
  \E StmtLabel \in OptLabels :
    /\ InBody /\ CanBuild
    /\ SimpleStmt("ActOnContinueStmt", "Continue", StmtLabel, Stmts)
    /\ UNCHANGED Phase

ActOnStopStmt ==
  \E StmtLabel \in OptLabels :
    /\ InBody /\ CanBuild
    /\ SimpleStmt("ActOnStopStmt", "Stop", StmtLabel, Stmts)
    /\ UNCHANGED Phase

\* ParseMainProgram parses the PROGRAM statement before ActOnMainProgram:
\* it is the first statement of the new unit.
ActOnPROGRAM ==
  \E StmtLabel \in OptLabels :
    /\ Phase = "outside"
    /\ SimpleStmt("ActOnPROGRAM", "Program", StmtLabel, <<>>)
    /\ Phase' = "program"

\* The END PROGRAM statement is the last statement of the unit.
ActOnENDPROGRAM ==
  \E StmtLabel \in OptLabels :
    /\ InBody /\ CanBuild
    /\ SimpleStmt("ActOnENDPROGRAM", "EndProgram", StmtLabel, Stmts)
    /\ Phase' = "end"

----------------------------------------------------------------------------
\* GOTO, ASSIGN and assigned GOTO

ActOnGotoStmt ==
  \E Destination \in Labels, StmtLabel \in OptLabels :
    /\ InBody /\ CanRefer(1)
    /\ LET Decl == Resolve(Destination)
           Result == Len(Stmts) + 1
           Ref == StmtLabelForwardDecl(Destination, Result,
                                       "ResolveGotoStmtLabel", 0)
       IN /\ Stmts' = Append(Stmts, [NewStmt("Goto", StmtLabel)
                                       EXCEPT !.Destination = Decl])
          /\ ForwardStmtLabelDeclsInScope' =
               IF Decl = 0
               THEN DeclareForwardReference(ForwardStmtLabelDeclsInScope, Ref)
               ELSE ForwardStmtLabelDeclsInScope
          /\ Enqueued' = IF Decl = 0 THEN Append(Enqueued, Ref) ELSE Enqueued
          /\ DeclareLabelOf(StmtLabel, Result, <<>>)
          /\ Last' = Call("ActOnGotoStmt", StmtLabel, Destination, <<>>,
                          TRUE, Result)
    /\ UNCHANGED <<IfStmtStack, DoStmtList, Phase, AssertFailed,
                   PopTrace, ElseOpen>>

ActOnAssignStmt ==
  \E Value \in Labels, StmtLabel \in OptLabels :
    /\ InBody /\ CanRefer(1)
    /\ LET Decl == Resolve(Value)
           Result == Len(Stmts) + 1
           Ref == StmtLabelForwardDecl(Value, Result,
                                       "ResolveAssignStmtLabel", 0)
       IN /\ Stmts' = Append(Stmts, [NewStmt("Assign", StmtLabel)
                                       EXCEPT !.Address = Decl])
          /\ ForwardStmtLabelDeclsInScope' =
               IF Decl = 0
               THEN DeclareForwardReference(ForwardStmtLabelDeclsInScope, Ref)
               ELSE ForwardStmtLabelDeclsInScope
          /\ Enqueued' = IF Decl = 0 THEN Append(Enqueued, Ref) ELSE Enqueued
          /\ DeclareLabelOf(StmtLabel, Result, <<>>)
          /\ Last' = Call("ActOnAssignStmt", StmtLabel, Value, <<>>,
                          TRUE, Result)
    /\ UNCHANGED <<IfStmtStack, DoStmtList, Phase, AssertFailed,
                   PopTrace, ElseOpen>>

AllowedLists == UNION {[1..n -> Labels] : n \in 0..MaxRefs}

\* The second loop of ActOnAssignedGotoStmt: the forward references of the
\* unresolved slots I, I+1, ... (I is the 0-based slot index of the code).
RECURSIVE AssignedGotoForwardDecls(_, _, _, _)
AssignedGotoForwardDecls(AllowedValues, AllowedLabels, Result, I) ==
  IF I >= Len(AllowedValues) THEN <<>>
  ELSE (IF AllowedLabels[I + 1] = 0
        THEN <<StmtLabelForwardDecl(AllowedValues[I + 1], Result,
                                    "ResolveAssignedGotoStmtLabel", I)>>
        ELSE <<>>)
       \o AssignedGotoForwardDecls(AllowedValues, AllowedLabels, Result, I + 1)

RECURSIVE DeclareForwardReferences(_, _)
DeclareForwardReferences(list, refs) ==
  IF refs = <<>> THEN list
  ELSE DeclareForwardReferences(DeclareForwardReference(list, Head(refs)),
                                Tail(refs))

ActOnAssignedGotoStmt ==
  \E AllowedValues \in AllowedLists, StmtLabel \in OptLabels :
    /\ InBody /\ CanRefer(Len(AllowedValues))
    /\ LET AllowedLabels == [I \in 1..Len(AllowedValues) |->
                               Resolve(AllowedValues[I])]
           Result == Len(Stmts) + 1
           Refs == AssignedGotoForwardDecls(AllowedValues, AllowedLabels,
                                            Result, 0)
       IN /\ Stmts' = Append(Stmts, [NewStmt("AssignedGoto", StmtLabel)
                                       EXCEPT !.AllowedValues = AllowedLabels])
          /\ ForwardStmtLabelDeclsInScope' =
               DeclareForwardReferences(ForwardStmtLabelDeclsInScope, Refs)
          /\ Enqueued' = Enqueued \o
               SelectSeq([I \in 1..Len(AllowedValues) |->
                            StmtLabelForwardDecl(AllowedValues[I], Result,
                              "ResolveAssignedGotoStmtLabel", I - 1)],
                         LAMBDA R : Resolve(R.StmtLabel) = 0)
          /\ DeclareLabelOf(StmtLabel, Result, <<>>)
          /\ Last' = Call("ActOnAssignedGotoStmt", StmtLabel, 0,
                          AllowedValues, TRUE, Result)
    /\ UNCHANGED <<IfStmtStack, DoStmtList, Phase, AssertFailed,
                   PopTrace, ElseOpen>>

----------------------------------------------------------------------------
\* IF constructs.  IsLogical is IsLogicalExpression(Condition).

ExpectedLogical == <<Diag("err_typecheck_expected_logical_expr", 0, 0)>>

NotInIf(kw) == <<Diag("err_stmt_not_in_if", 0, kw)>>

\* What a call that returns StmtError() leaves behind.  The record of a call
\* that fails its type check carries no label: the call returns before it
\* looks at one.
StmtError(op, StmtLabel, Target, ok, diags) ==
  /\ Diags' = diags
  /\ Last' = Call(op, StmtLabel, Target, <<>>, ok, 0)
  /\ UNCHANGED <<semaVars, Phase, AssertFailed, Enqueued, PopTrace,
                 ElseOpen>>

\* Logical IF: ActOnIfStmt(C, Loc, Condition, Body, StmtLabel).  The body is
\* the action statement the parser has just built.
ActOnIfStmtBody ==
  \E IsLogical \in BOOLEAN, StmtLabel \in OptLabels :
    /\ InBody /\ Len(Stmts) > 0
    /\ IF ~IsLogical
       THEN StmtError("ActOnIfStmtBody", 0, 0, FALSE, ExpectedLogical)
       ELSE /\ CanBuildIf
            /\ LET Body == Len(Stmts)
                   Result == Len(Stmts) + 1
               IN /\ Stmts' = Append(Stmts, [NewStmt("If", StmtLabel)
                                 EXCEPT !.ThenStmt = Body,
                                        !.Construct = "logical"])
                  /\ DeclareLabelOf(StmtLabel, Result, <<>>)
                  /\ Last' = Call("ActOnIfStmtBody", StmtLabel, 0, <<>>,
                                  TRUE, Result)
            /\ UNCHANGED <<ForwardStmtLabelDeclsInScope, IfStmtStack,
                           DoStmtList, Phase, AssertFailed, Enqueued,
                           PopTrace, ElseOpen>>

\* Block IF: ActOnIfStmt(C, Loc, Condition, StmtLabel).
ActOnIfStmt ==
  \E IsLogical \in BOOLEAN, StmtLabel \in OptLabels :
    /\ InBody
    /\ IF ~IsLogical
       THEN StmtError("ActOnIfStmt", 0, 0, FALSE, ExpectedLogical)
       ELSE /\ CanBuildIf
            /\ LET Result == Len(Stmts) + 1
               IN /\ Stmts' = Append(Stmts, [NewStmt("If", StmtLabel)
                                 EXCEPT !.Construct = "block"])
                  /\ IfStmtStack' = Append(IfStmtStack, Result)
                  /\ DeclareLabelOf(StmtLabel, Result, <<>>)
                  /\ Last' = Call("ActOnIfStmt", StmtLabel, 0, <<>>,
                                  TRUE, Result)
            /\ UNCHANGED <<ForwardStmtLabelDeclsInScope, DoStmtList, Phase,
                           AssertFailed, Enqueued, PopTrace, ElseOpen>>

ActOnElseIfStmt ==
  \E IsLogical \in BOOLEAN, StmtLabel \in OptLabels :
    /\ InBody
    /\ IF ~IsLogical
       THEN StmtError("ActOnElseIfStmt", 0, 0, FALSE, ExpectedLogical)
       ELSE IF Len(IfStmtStack) = 0
       THEN StmtError("ActOnElseIfStmt", StmtLabel, 0, TRUE, NotInIf("ELSE IF"))
       ELSE /\ CanBuildIf
            /\ LET Result == Len(Stmts) + 1
                   Top == IfStmtStack[Len(IfStmtStack)]
               IN /\ Stmts' = Append([Stmts EXCEPT ![Top].ElseStmt = Result],
                                     [NewStmt("If", StmtLabel)
                                        EXCEPT !.Construct = "elseif"])
                  /\ IfStmtStack' =
                       Append(SubSeq(IfStmtStack, 1, Len(IfStmtStack) - 1),
                              Result)
                  /\ DeclareLabelOf(StmtLabel, Result, <<>>)
                  /\ Last' = Call("ActOnElseIfStmt", StmtLabel, 0, <<>>,
                                  TRUE, Result)
            /\ UNCHANGED <<ForwardStmtLabelDeclsInScope, DoStmtList, Phase,
                           AssertFailed, Enqueued, PopTrace, ElseOpen>>

\* An ActOnElseStmt that does not look at IfStmtStack.
ActOnElseStmt_Unchecked ==
  \E StmtLabel \in OptLabels :
    /\ InBody /\ CanBuildIf
    /\ LET Result == Len(Stmts) + 1
       IN /\ Stmts' = Append(Stmts, NewStmt("Else", StmtLabel))
          /\ DeclareLabelOf(StmtLabel, Result, <<>>)
          /\ Last' = Call("ActOnElseStmt", StmtLabel, 0, <<>>, TRUE, Result)
    /\ UNCHANGED <<ForwardStmtLabelDeclsInScope, IfStmtStack, DoStmtList,
                   Phase, AssertFailed, Enqueued, PopTrace, ElseOpen>>

ActOnElseStmt ==
  \E StmtLabel \in OptLabels :
    /\ InBody
    /\ IF Len(IfStmtStack) = 0
       THEN StmtError("ActOnElseStmt", StmtLabel, 0, TRUE, NotInIf("ELSE"))
       ELSE /\ CanBuildIf
            /\ LET Result == Len(Stmts) + 1
               IN /\ Stmts' = Append(Stmts, NewStmt("Else", StmtLabel))
                  /\ DeclareLabelOf(StmtLabel, Result, <<>>)
                  /\ Last' = Call("ActOnElseStmt", StmtLabel, 0, <<>>,
                                  TRUE, Result)
            /\ ElseOpen' = ElseOpen \cup {IfStmtStack[Len(IfStmtStack)]}
            /\ UNCHANGED <<ForwardStmtLabelDeclsInScope, IfStmtStack,
                           DoStmtList, Phase, AssertFailed, Enqueued,
                           PopTrace>>

\* An ActOnEndIfStmt that leaves the construct open.
ActOnEndIfStmt_NoPop ==
  \E StmtLabel \in OptLabels :
    /\ InBody
    /\ IF Len(IfStmtStack) = 0
       THEN StmtError("ActOnEndIfStmt", StmtLabel, 0, TRUE, NotInIf("END IF"))
       ELSE /\ CanBuildIf
            /\ LET Result == Len(Stmts) + 1
               IN /\ Stmts' = Append(Stmts, NewStmt("EndIf", StmtLabel))
                  /\ DeclareLabelOf(StmtLabel, Result, <<>>)
                  /\ Last' = Call("ActOnEndIfStmt", StmtLabel, 0, <<>>,
                                  TRUE, Result)
            /\ UNCHANGED <<ForwardStmtLabelDeclsInScope, IfStmtStack,
                           DoStmtList, Phase, AssertFailed, Enqueued,
                           PopTrace, ElseOpen>>

ActOnEndIfStmt ==
  \E StmtLabel \in OptLabels :
    /\ InBody
    /\ IF Len(IfStmtStack) = 0
       THEN StmtError("ActOnEndIfStmt", StmtLabel, 0, TRUE, NotInIf("END IF"))
       ELSE /\ CanBuildIf
            /\ LET Result == Len(Stmts) + 1
               IN /\ IfStmtStack' =
                       SubSeq(IfStmtStack, 1, Len(IfStmtStack) - 1)
                  /\ Stmts' = Append(Stmts, NewStmt("EndIf", StmtLabel))
                  /\ DeclareLabelOf(StmtLabel, Result, <<>>)
                  /\ Last' = Call("ActOnEndIfStmt", StmtLabel, 0, <<>>,
                                  TRUE, Result)
            /\ UNCHANGED <<ForwardStmtLabelDeclsInScope, DoStmtList, Phase,
                           AssertFailed, Enqueued, PopTrace, ElseOpen>>

----------------------------------------------------------------------------
\* DO

IsValidDoLogicalIfThenStatement(stmts, S) ==
  IF stmts[S].ID \in {"Do", "If", "Else", "EndIf"} THEN FALSE ELSE TRUE

IsValidDoTerminatingStatement(stmts, S) ==
  IF stmts[S].ID \in {"Goto", "AssignedGoto", "Stop", "Do", "Else", "EndIf"}
  THEN FALSE
  ELSE IF stmts[S].ID = "If"
  THEN LET NextStmt == stmts[S].ThenStmt
       IN NextStmt # 0 /\ IsValidDoLogicalIfThenStatement(stmts, NextStmt)
  ELSE TRUE

\* An ActOnDoStmt that takes a declared label as GOTO does.
ActOnDoStmt_Eager ==
  \E TerminatingStmt \in Labels, StmtLabel \in OptLabels :
    /\ InBody /\ CanRefer(1)
    /\ LET Result == Len(Stmts) + 1
           Decl == Resolve(TerminatingStmt)
           Ref == StmtLabelForwardDecl(TerminatingStmt, Result,
                                       "ResolveDoStmtLabel", 0)
       IN /\ Stmts' = Append(Stmts, [NewStmt("Do", StmtLabel)
                                       EXCEPT !.TerminatingStmt = Decl])
          /\ ForwardStmtLabelDeclsInScope' =
               IF Decl # 0 THEN ForwardStmtLabelDeclsInScope
               ELSE DeclareForwardReference(ForwardStmtLabelDeclsInScope,
                                            Ref)
          /\ Enqueued' = IF Decl # 0 THEN Enqueued
                         ELSE Append(Enqueued, Ref)
          /\ DoStmtList' = Append(DoStmtList, Result)
          /\ DeclareLabelOf(StmtLabel, Result, <<>>)
          /\ Last' = Call("ActOnDoStmt", StmtLabel, TerminatingStmt,
                          <<>>, TRUE, Result)
    /\ UNCHANGED <<IfStmtStack, Phase, AssertFailed, PopTrace, ElseOpen>>

\* HasErrors is the outcome of the four ExpectRealOrIntegerOrDoublePrec
\* checks; the diagnostics they report are summarised as one.
ActOnDoStmt ==
  \E TerminatingStmt \in Labels, HasErrors \in BOOLEAN,
     StmtLabel \in OptLabels :
    /\ InBody
    /\ IF HasErrors
       THEN StmtError("ActOnDoStmt", 0, 0, FALSE,
                      <<Diag("err_typecheck_expected_do_expr", 0, 0)>>)
       ELSE IF Resolve(TerminatingStmt) # 0
       THEN StmtError("ActOnDoStmt", 0, TerminatingStmt, TRUE,
                      <<Diag("err_stmt_label_must_decl_after",
                             TerminatingStmt, "DO")>>)
       ELSE /\ CanRefer(1)
            /\ LET Result == Len(Stmts) + 1
                   Ref == StmtLabelForwardDecl(TerminatingStmt, Result,
                                               "ResolveDoStmtLabel", 0)
               IN /\ Stmts' = Append(Stmts, NewStmt("Do", StmtLabel))
                  /\ ForwardStmtLabelDeclsInScope' =
                       DeclareForwardReference(ForwardStmtLabelDeclsInScope,
                                               Ref)
                  /\ Enqueued' = Append(Enqueued, Ref)
                  /\ DoStmtList' = Append(DoStmtList, Result)
                  /\ DeclareLabelOf(StmtLabel, Result, <<>>)
                  /\ Last' = Call("ActOnDoStmt", StmtLabel, TerminatingStmt,
                                  <<>>, TRUE, Result)
            /\ UNCHANGED <<IfStmtStack, Phase, AssertFailed, PopTrace,
                           ElseOpen>>

----------------------------------------------------------------------------
\* Assignment

\* BuiltinType::TypeSpec, and a type that is not a BuiltinType.
IntrinsicTypes ==
  {"Integer", "Real", "DoublePrecision", "Complex", "Character", "Logical"}

Types == IntrinsicTypes \cup {"Record"}

isIntegerType(T) == T = "Integer"
isRealType(T) == T = "Real"
isDoublePrecisionType(T) == T = "DoublePrecision"
isComplexType(T) == T = "Complex"
isLogicalType(T) == T = "Logical"
isCharacterType(T) == T = "Character"

\* An operand of the given type, and ConversionExpr::Create around an
\* expression.
TypedExpr(T) == [Kind |-> "Operand", Type |-> T]

ConversionExpr(Op, E) == [Kind |-> "Conversion", Op |-> Op, Expr |-> E]

\* An AssignmentConversion that picks the conversion by the type of the
\* right-hand side.
AssignmentConversion_ByRHS(LHSType, RHSType) ==
  LET Arithmetic(T) == T \in {"Integer", "Real", "DoublePrecision", "Complex"}
      Of(T) == CASE T = "Integer" -> "INT" [] T = "Real" -> "REAL"
                 [] T = "DoublePrecision" -> "DBLE" [] T = "Complex" -> "CMPLX"
  IN IF LHSType = RHSType /\ LHSType \in IntrinsicTypes THEN "none"
     ELSE IF Arithmetic(LHSType) /\ Arithmetic(RHSType) THEN Of(RHSType)
     ELSE "typeError"

\* The chain of tests of ActOnAssignmentStmt: the conversion to apply to the
\* right-hand side, "none", or "typeError".
AssignmentConversion(LHSType, RHSType) ==
  LET IsRHSInteger == isIntegerType(RHSType)
      IsRHSReal == isRealType(RHSType)
      IsRHSDblPrec == isDoublePrecisionType(RHSType)
      IsRHSComplex == isComplexType(RHSType)
      IsRHSArithmetic == IsRHSInteger \/ IsRHSReal \/ IsRHSDblPrec
                         \/ IsRHSComplex
  IN IF isIntegerType(LHSType)
     THEN IF IsRHSInteger THEN "none"
          ELSE IF IsRHSArithmetic THEN "INT" ELSE "typeError"
     ELSE IF isRealType(LHSType)
     THEN IF IsRHSReal THEN "none"
          ELSE IF IsRHSArithmetic THEN "REAL" ELSE "typeError"
     ELSE IF isDoublePrecisionType(LHSType)
     THEN IF IsRHSDblPrec THEN "none"
          ELSE IF IsRHSArithmetic THEN "DBLE" ELSE "typeError"
     ELSE IF isComplexType(LHSType)
     THEN IF IsRHSComplex THEN "none"
          ELSE IF IsRHSArithmetic THEN "CMPLX" ELSE "typeError"
     ELSE IF isLogicalType(LHSType)
     THEN IF ~isLogicalType(RHSType) THEN "typeError" ELSE "none"
     ELSE IF isCharacterType(LHSType)
     THEN IF ~isCharacterType(RHSType) THEN "typeError" ELSE "none"
     ELSE "typeError"

AssignmentsBuilt ==
  Cardinality({i \in 1..Len(Stmts) : Stmts[i].ID = "Assignment"})

\* The statement is unlabelled or bears the label 1.
ActOnAssignmentStmt ==
  \E LHSType, RHSType \in Types, StmtLabel \in {0, 1} :
    /\ InBody
    /\ LET LHS == TypedExpr(LHSType)
           RHS == TypedExpr(RHSType)
           Conv == AssignmentConversion(LHSType, RHSType)
       IN IF Conv = "typeError"
          THEN StmtError("ActOnAssignmentStmt", 0, 0, FALSE,
                         <<Diag("err_typecheck_assign_incompatible", 0,
                                <<LHSType, RHSType>>)>>)
          ELSE /\ CanBuild /\ AssignmentsBuilt < MaxAssign
               /\ LET Result == Len(Stmts) + 1
                      Converted == IF Conv = "none" THEN RHS
                                   ELSE ConversionExpr(Conv, RHS)
                  IN /\ Stmts' = Append(Stmts,
                          NewStmt("Assignment", StmtLabel)
                            @@ [LHS |-> LHS, RHS |-> Converted])
                     /\ DeclareLabelOf(StmtLabel, Result, <<>>)
                     /\ Last' = Call("ActOnAssignmentStmt", StmtLabel, 0,
                                     <<>>, TRUE, Result)
               /\ UNCHANGED <<ForwardStmtLabelDeclsInScope, IfStmtStack,
                              DoStmtList, Phase, AssertFailed, Enqueued,
                              PopTrace, ElseOpen>>

----------------------------------------------------------------------------
\* Program units

\* Called by ActOnMainProgram.  A failed assert is recorded; a build without
\* asserts carries on.
PushExecutableProgramUnitAs(op) ==
  /\ AssertFailed' = (AssertFailed
                      \/ StmtLabelDeclsInScope # {}
                      \/ Len(ForwardStmtLabelDeclsInScope) # 0
                      \/ DoStmtList # <<>>
                      \/ IfStmtStack # <<>>)
  /\ Phase' = "body"
  /\ Diags' = <<>>
  /\ Last' = Call(op, 0, 0, <<>>, TRUE, 0)
  /\ Enqueued' = <<>>
  /\ PopTrace' = <<>>
  /\ ElseOpen' = {}
  /\ Stmts' = IF Phase = "program" THEN Stmts ELSE <<>>
  /\ UNCHANGED <<StmtLabelDeclsInScope, ForwardStmtLabelDeclsInScope,
                 IfStmtStack, DoStmtList>>

\* The parser enters a unit after the PROGRAM statement, if there is one.
PushExecutableProgramUnit ==
  /\ Phase \in {"outside", "program"}
  /\ PushExecutableProgramUnitAs("PushExecutableProgramUnit")

\* The resolve callbacks.
ResolveAssignStmtLabel(stmts, Self, Destination) ==
  [stmts EXCEPT ![Self.Statement].Address = Destination]

\* A callback that ignores the slot index it was given.
ResolveAssignedGotoStmtLabel_FirstSlot(stmts, Self, Destination) ==
  [stmts EXCEPT ![Self.Statement].AllowedValues[1] = Destination]

ResolveAssignedGotoStmtLabel(stmts, Self, Destination) ==
  [stmts EXCEPT ![Self.Statement].AllowedValues[Self.ResolveCallbackData + 1]
                  = Destination]

ResolveGotoStmtLabel(stmts, Self, Destination) ==
  [stmts EXCEPT ![Self.Statement].Destination = Destination]

ResolveDoStmtLabel(stmts, Self, Destination) ==
  [stmts EXCEPT ![Self.Statement].TerminatingStmt = Destination]

ResolveCallback(stmts, Self, Destination) ==
  CASE Self.ResolveCallback = "ResolveAssignStmtLabel" ->
         ResolveAssignStmtLabel(stmts, Self, Destination)
    [] Self.ResolveCallback = "ResolveAssignedGotoStmtLabel" ->
         ResolveAssignedGotoStmtLabel(stmts, Self, Destination)
    [] Self.ResolveCallback = "ResolveGotoStmtLabel" ->
         ResolveGotoStmtLabel(stmts, Self, Destination)
    [] Self.ResolveCallback = "ResolveDoStmtLabel" ->
         ResolveDoStmtLabel(stmts, Self, Destination)

\* A loop that drops the references it cannot resolve without a diagnostic.
RECURSIVE FixForwardReferences_Silent(_, _, _)
FixForwardReferences_Silent(StmtLabelForwardDecls, I, acc) ==
  IF I > Len(StmtLabelForwardDecls) THEN acc
  ELSE LET Self == StmtLabelForwardDecls[I]
           Decl == Resolve(Self.StmtLabel)
       IN FixForwardReferences_Silent(StmtLabelForwardDecls, I + 1,
            IF Decl # 0
            THEN [Stmts |-> ResolveCallback(acc.Stmts, Self, Decl),
                  Diags |-> acc.Diags,
                  Trace |-> Append(acc.Trace,
                                   [Ref |-> Self, Callback |-> Decl,
                                    Diag |-> FALSE])]
            ELSE [Stmts |-> acc.Stmts,
                  Diags |-> acc.Diags,
                  Trace |-> Append(acc.Trace,
                                   [Ref |-> Self, Callback |-> 0,
                                    Diag |-> TRUE])])

\* The first loop of PopExecutableProgramUnit, from index I (1-based) on.
\* acc carries the arena, the diagnostics and the trace of what was done.
RECURSIVE FixForwardReferences(_, _, _)
FixForwardReferences(StmtLabelForwardDecls, I, acc) ==
  IF I > Len(StmtLabelForwardDecls) THEN acc
  ELSE LET Self == StmtLabelForwardDecls[I]
           Decl == Resolve(Self.StmtLabel)
       IN FixForwardReferences(StmtLabelForwardDecls, I + 1,
            IF Decl # 0
            THEN [Stmts |-> ResolveCallback(acc.Stmts, Self, Decl),
                  Diags |-> acc.Diags,
                  Trace |-> Append(acc.Trace,
                                   [Ref |-> Self, Callback |-> Decl,
                                    Diag |-> FALSE])]
            ELSE [Stmts |-> acc.Stmts,
                  Diags |-> Append(acc.Diags,
                                   Diag("err_undeclared_stmt_label_use",
                                        Self.StmtLabel, Self.StmtLabel)),
                  Trace |-> Append(acc.Trace,
                                   [Ref |-> Self, Callback |-> 0,
                                    Diag |-> TRUE])])

\* The loop over IfStmtStack: one diagnostic per unterminated IF.
ExpectedEndIf(stack) ==
  [I \in 1..Len(stack) |-> Diag("err_expected_kw", 0, "END IF")]

\* The loop over DoStmtList.  Arg names the DO the diagnostic is about.
RECURSIVE CheckDoStmts(_, _, _)
CheckDoStmts(stmts, list, I) ==
  IF I > Len(list) THEN <<>>
  ELSE LET Term == stmts[list[I]].TerminatingStmt
       IN (IF Term # 0 /\ ~IsValidDoTerminatingStatement(stmts, Term)
           THEN <<Diag("err_invalid_do_terminating_stmt", Term, list[I])>>
           ELSE <<>>)
          \o CheckDoStmts(stmts, list, I + 1)

\* Called by ActOnEndMainProgram.
PopExecutableProgramUnitAs(op, before) ==
  /\ LET Fixed == FixForwardReferences(ForwardStmtLabelDeclsInScope, 1,
                    [Stmts |-> Stmts, Diags |-> <<>>, Trace |-> <<>>])
     IN /\ Stmts' = Fixed.Stmts
        /\ PopTrace' = Fixed.Trace
        /\ Diags' = before \o Fixed.Diags \o ExpectedEndIf(IfStmtStack)
                      \o CheckDoStmts(Fixed.Stmts, DoStmtList, 1)
  /\ StmtLabelDeclsInScope' = resetDecls
  /\ ForwardStmtLabelDeclsInScope' = resetForwardDecls
  /\ IfStmtStack' = <<>>
  /\ DoStmtList' = <<>>
  /\ Phase' = "outside"
  /\ Last' = Call(op, 0, 0, <<>>, TRUE, 0)
  /\ UNCHANGED <<AssertFailed, Enqueued, ElseOpen>>

\* The parser leaves a unit it has entered.
PopExecutableProgramUnit ==
  /\ Phase \in {"body", "end"}
  /\ PopExecutableProgramUnitAs("PopExecutableProgramUnit", <<>>)

----------------------------------------------------------------------------
\* Declaration contexts.  A DeclContext* is the 1-based index of the context
\* in DeclContexts and a VarDecl* the index of the variable in VarDecls, 0
\* the null pointer.  Context 1 is the TranslationUnitDecl of the ASTContext.
\* A failed assert is recorded; a build without asserts carries on.

toupper(c) == IF c \in 97..122 THEN c - 32 ELSE c

\* The names "i", "N", "H" and "o".
Names == {<<105>>, <<78>>, <<72>>, <<111>>}

NoName == <<>>

\* The program names "p" and "q".
ProgNames == {<<112>>, <<113>>}

getContainingDC(DC) == DeclContexts[DC].Parent

CanCreateContext == Len(DeclContexts) - 1 < MaxDeclContexts

\* What the actions on declaration contexts leave alone in the unit.
unitRest == <<StmtLabelDeclsInScope, ForwardStmtLabelDeclsInScope,
              IfStmtStack, DoStmtList, Stmts, Phase, AssertFailed, Enqueued,
              PopTrace, ElseOpen>>

\* The asserts of PushDeclContext and PopDeclContext have held so far.  The
\* calls that follow a failed one are not explored: the build with asserts
\* has stopped there.
PushPopAssertsHold ==
  DeclAssertFailed \cap {"PushDeclContext", "PopDeclContext"} = {}

\* PushDeclContext(DC), DC being a context of the arena contexts.
PushDeclContext(contexts, DC) ==
  /\ PushPopAssertsHold
  /\ DeclAssertFailed' = DeclAssertFailed \cup
       (IF contexts[DC].Parent # CurContext THEN {"PushDeclContext"} ELSE {})
  /\ CurContext' = DC
  /\ Entered' = Append(Entered, DC)

\* A PopDeclContext that goes back to the translation unit.
PopDeclContext_ToTranslationUnit(failed) ==
  /\ PushPopAssertsHold
  /\ CurContext # 0
  /\ CurContext' = IF CurContext = 1 THEN 0 ELSE 1
  /\ DeclAssertFailed' = DeclAssertFailed \cup failed \cup
       (IF CurContext = 1 THEN {"PopDeclContext"} ELSE {})
  /\ Entered' = IF Entered = <<>> THEN <<>>
                ELSE SubSeq(Entered, 1, Len(Entered) - 1)

\* PopDeclContext; failed names the asserts of the caller that have failed.
\* A null CurContext is dereferenced and ends the program.
PopDeclContext(failed) ==
  /\ PushPopAssertsHold
  /\ CurContext # 0
  /\ CurContext' = getContainingDC(CurContext)
  /\ DeclAssertFailed' = DeclAssertFailed \cup failed \cup
       (IF getContainingDC(CurContext) = 0 THEN {"PopDeclContext"} ELSE {})
  /\ Entered' = IF Entered = <<>> THEN <<>>
                ELSE SubSeq(Entered, 1, Len(Entered) - 1)

ActOnTranslationUnit ==
  /\ PushDeclContext(DeclContexts, 1)
  /\ Last' = Called("ActOnTranslationUnit", <<>>, 0)
  /\ Diags' = <<>>
  /\ UNCHANGED <<DeclContexts, VarDecls, FETokenInfo, unitRest, scopeVars, otherVars>>

ActOnMainProgram ==
  \E IDInfo \in {NoName} \cup ProgNames :
    /\ CanCreateContext
    /\ LET Created == Append(DeclContexts,
                        [Kind |-> "MainProgram", Parent |-> 1,
                         Name |-> IDInfo, Decls |-> <<>>])
       IN /\ DeclContexts' = Created
          /\ PushDeclContext(Created, Len(Created))
    /\ PushExecutableProgramUnitAs("ActOnMainProgram")
    /\ UNCHANGED <<VarDecls, FETokenInfo, scopeVars, otherVars>>

\* cast<MainProgramDecl>(CurContext) asserts the kind of the context; on
\* another context a build without asserts reads a name that is not there.
ActOnEndMainProgram ==
  \E IDInfo \in {NoName} \cup ProgNames, Read \in {NoName} \cup ProgNames :
    /\ CurContext # 0
    /\ LET IsMain == DeclContexts[CurContext].Kind = "MainProgram"
           ProgName == IF IsMain THEN DeclContexts[CurContext].Name
                       ELSE Read
           Mismatch == ProgName # NoName /\ IDInfo # NoName
                       /\ ProgName # IDInfo
       IN /\ IsMain => Read = NoName
          /\ PopDeclContext(IF IsMain THEN {} ELSE {"cast"})
          /\ PopExecutableProgramUnitAs("ActOnEndMainProgram",
               IF Mismatch
               THEN <<Diag("expected label for END PROGRAM statement",
                           0, ProgName)>>
               ELSE <<>>)
    /\ UNCHANGED <<DeclContexts, VarDecls, FETokenInfo, scopeVars, otherVars>>

\* The context is needed to create the record: a null one ends the program.
ActOnDerivedTypeDecl ==
  \E IDInfo \in Names :
    /\ CurContext # 0 /\ CanCreateContext
    /\ LET Record == Len(DeclContexts) + 1
           Created == Append(
             [DeclContexts EXCEPT ![CurContext].Decls =
                Append(@, <<"Record", Record>>)],
             [Kind |-> "Record", Parent |-> CurContext, Name |-> IDInfo,
              Decls |-> <<>>])
       IN /\ DeclContexts' = Created
          /\ PushDeclContext(Created, Record)
          /\ Last' = Called("ActOnDerivedTypeDecl", <<IDInfo>>, Record)
    /\ Diags' = <<>>
    /\ UNCHANGED <<VarDecls, FETokenInfo, unitRest, scopeVars, otherVars>>

ActOnEndDerivedTypeDecl ==
  /\ PopDeclContext({})
  /\ Last' = Called("ActOnEndDerivedTypeDecl", <<>>, 0)
  /\ Diags' = <<>>
  /\ UNCHANGED <<DeclContexts, VarDecls, FETokenInfo, unitRest, scopeVars, otherVars>>

----------------------------------------------------------------------------
\* Entity declarations

\* Sema::ActOnTypeName for a DeclSpec without attributes; "" is the null
\* QualType.
ActOnTypeName(TST) ==
  CASE TST = "TST_integer" -> "Integer"
    [] TST \in {"TST_unspecified", "TST_real"} -> "Real"
    [] TST = "TST_doubleprecision" -> "DoublePrecision"
    [] TST = "TST_character" -> "Character"
    [] TST = "TST_logical" -> "Logical"
    [] TST = "TST_complex" -> "Complex"
    [] TST = "TST_struct" -> ""

\* The type specs the declarations of the exploration use.
DeclTypeSpecs == {"TST_integer", "TST_character"}

\* An ActOnEntityDecl that takes any payload for a redeclaration.
EntityDecl_AnyContext(op, args, TST, IDInfo) ==
  /\ CurContext # 0
  /\ LET Prev == FETokenInfo[IDInfo]
     IN IF Prev # 0
        THEN /\ Diags' = <<Diag("variable already declared", 0, IDInfo),
                           Diag("note: previous declaration", Prev, 0)>>
             /\ Last' = Called(op, args, 0)
             /\ UNCHANGED <<DeclContexts, VarDecls, FETokenInfo>>
        ELSE /\ Len(VarDecls) < MaxVarDecls
             /\ LET VD == Len(VarDecls) + 1
                IN /\ VarDecls' = Append(VarDecls,
                        [Name |-> IDInfo, Type |-> ActOnTypeName(TST),
                         DC |-> CurContext])
                   /\ DeclContexts' = [DeclContexts EXCEPT
                        ![CurContext].Decls = Append(@, <<"Var", VD>>)]
                   /\ FETokenInfo' = [FETokenInfo EXCEPT ![IDInfo] = VD]
                   /\ Last' = Called(op, args, VD)
             /\ Diags' = <<>>
  /\ UNCHANGED <<CurContext, DeclAssertFailed, Entered, unitRest, scopeVars, otherVars>>

\* The body of ActOnEntityDecl, called as op with the arguments args.  The
\* VarDecl is created in CurContext: a null one ends the program.
EntityDecl(op, args, TST, IDInfo) ==
  /\ CurContext # 0
  /\ LET Prev == FETokenInfo[IDInfo]
     IN IF Prev # 0 /\ VarDecls[Prev].DC = CurContext
        THEN /\ Diags' = <<Diag("variable already declared", 0, IDInfo),
                           Diag("note: previous declaration", Prev, 0)>>
             /\ Last' = Called(op, args, 0)
             /\ UNCHANGED <<DeclContexts, VarDecls, FETokenInfo>>
        ELSE /\ Len(VarDecls) < MaxVarDecls
             /\ LET VD == Len(VarDecls) + 1
                IN /\ VarDecls' = Append(VarDecls,
                        [Name |-> IDInfo, Type |-> ActOnTypeName(TST),
                         DC |-> CurContext])
                   /\ DeclContexts' = [DeclContexts EXCEPT
                        ![CurContext].Decls = Append(@, <<"Var", VD>>)]
                   /\ FETokenInfo' = [FETokenInfo EXCEPT ![IDInfo] = VD]
                   /\ Last' = Called(op, args, VD)
             /\ Diags' = <<>>
  /\ UNCHANGED <<CurContext, DeclAssertFailed, Entered, unitRest, scopeVars, otherVars>>

ActOnEntityDecl ==
  \E TST \in DeclTypeSpecs, IDInfo \in Names :
    EntityDecl("ActOnEntityDecl", <<TST, IDInfo>>, TST, IDInfo)

\* An ImplicitTypeSpec that does not fold the case of the letter.
ImplicitTypeSpec_CaseSensitive(IDInfo) ==
  LET letter == IDInfo[1]
  IN IF letter >= 73 /\ letter <= 78 THEN "TST_integer" ELSE "TST_real"

\* The type spec ActOnImplicitEntityDecl gives the identifier: 73 is 'I' and
\* 78 is 'N'.
ImplicitTypeSpec(IDInfo) ==
  LET letter == toupper(IDInfo[1])
  IN IF letter >= 73 /\ letter <= 78 THEN "TST_integer" ELSE "TST_real"

ActOnImplicitEntityDecl ==
  \E IDInfo \in Names :
    EntityDecl("ActOnImplicitEntityDecl", <<IDInfo>>,
               ImplicitTypeSpec(IDInfo), IDInfo)

----------------------------------------------------------------------------
\* IMPLICIT statements.  Sema builds the statement and declares its label;
\* it has no ImplicitTypingScope to tell.

\* The letter specs "(i)" and "(H-o)".
ImplicitLetterSpecs == {<<<<105>>, <<>>>>, <<<<72>>, <<111>>>>}

ImplicitStmt(StmtLabel, IsNone, Ty, Specs) ==
  NewStmt("Implicit", StmtLabel)
    @@ [None |-> IsNone, Ty |-> Ty, LetterSpecs |-> Specs]

\* ActOnIMPLICIT(C, Loc, DS, LetterSpecs, StmtLabel)
ActOnIMPLICIT ==
  \E TST \in DeclTypeSpecs, Spec \in ImplicitLetterSpecs,
     StmtLabel \in {0, 1} :
    /\ InBody /\ CanBuild
    /\ LET Result == Len(Stmts) + 1
       IN /\ Stmts' = Append(Stmts,
               ImplicitStmt(StmtLabel, FALSE, ActOnTypeName(TST), <<Spec>>))
          /\ DeclareLabelOf(StmtLabel, Result, <<>>)
          /\ Last' = Call("ActOnIMPLICIT", StmtLabel, 0, <<>>, TRUE, Result)
    /\ UNCHANGED <<ForwardStmtLabelDeclsInScope, IfStmtStack, DoStmtList,
                   Phase, AssertFailed, Enqueued, PopTrace, ElseOpen,
                   nonUnitVars>>

\* ActOnIMPLICIT(C, Loc, StmtLabel): IMPLICIT NONE
ActOnIMPLICITNone ==
  \E StmtLabel \in {0, 1} :
    /\ InBody /\ CanBuild
    /\ LET Result == Len(Stmts) + 1
       IN /\ Stmts' = Append(Stmts, ImplicitStmt(StmtLabel, TRUE, "", <<>>))
          /\ DeclareLabelOf(StmtLabel, Result, <<>>)
          /\ Last' = Call("ActOnIMPLICIT", StmtLabel, 0, <<>>, TRUE, Result)
    /\ UNCHANGED <<ForwardStmtLabelDeclsInScope, IfStmtStack, DoStmtList,
                   Phase, AssertFailed, Enqueued, PopTrace, ElseOpen,
                   nonUnitVars>>

----------------------------------------------------------------------------
\* ImplicitTypingScope.  An identifier is the sequence of the character codes
\* of its name; a letter spec is a pair of identifiers, the second one the
\* empty sequence (a null pointer) when the spec names a single letter.

\* The loop of Apply over the letters Low..High.
RECURSIVE ApplyRange(_, _, _, _)
ApplyRange(rules, Low, High, T) ==
  IF Low > High THEN [Rules |-> rules, Result |-> TRUE]
  ELSE IF \E p \in rules : p[1] = Low
  THEN [Rules |-> rules, Result |-> FALSE]
  ELSE ApplyRange(rules \cup {<<Low, T>>}, Low + 1, High, T)

\* An Apply that lets the later rule take the letter.
ApplyRules_Remap(none, rules, LetterSpec, T) ==
  IF none THEN [Rules |-> rules, Result |-> FALSE]
  ELSE LET Low == toupper(LetterSpec[1][1])
           High == IF LetterSpec[2] # <<>> THEN toupper(LetterSpec[2][1])
                   ELSE Low
       IN [Rules |-> {p \in rules : p[1] \notin Low..High}
                       \cup {<<c, T>> : c \in Low..High},
           Result |-> TRUE]

\* ImplicitTypingScope::Apply on a scope (none, rules).
ApplyRules(none, rules, LetterSpec, T) ==
  IF none THEN [Rules |-> rules, Result |-> FALSE]
  ELSE LET Low == toupper(LetterSpec[1][1])
       IN IF LetterSpec[2] # <<>>
          THEN ApplyRange(rules, Low, toupper(LetterSpec[2][1]), T)
          ELSE IF \E p \in rules : p[1] = Low
          THEN [Rules |-> rules, Result |-> FALSE]
          ELSE [Rules |-> rules \cup {<<Low, T>>}, Result |-> TRUE]

\* ImplicitTypingScope::ApplyNone on a scope (none, rules).
ApplyNoneTo(none, rules) ==
  IF Cardinality(rules) # 0 THEN [None |-> none, Result |-> FALSE]
  ELSE [None |-> TRUE, Result |-> TRUE]

\* ImplicitTypingScope::Resolve on a scope without a parent.
ResolveRule(none, rules, IdInfo) ==
  IF none THEN <<"NoneRule", "">>
  ELSE LET C == toupper(IdInfo[1])
       IN IF \E p \in rules : p[1] = C
          THEN <<"TypeRule", (CHOOSE p \in rules : p[1] = C)[2]>>
          ELSE <<"DefaultRule", "">>

\* The identifiers "a" "B" "c" "D" ...: lower case at the odd places.
LetterNames ==
  {<<IF i % 2 = 1 THEN 96 + i ELSE 64 + i>> : i \in 1..MaxLetters}

LetterSpecs == LetterNames \X ({<<>>} \cup LetterNames)

RuleTypes == {"Integer", "Character"}

Apply ==
  \E LetterSpec \in LetterSpecs, T \in RuleTypes :
    LET R == ApplyRules(None, Rules, LetterSpec, T)
    IN /\ Rules' = R.Rules
       /\ Last' = Called("Apply", <<LetterSpec, T>>, R.Result)
       /\ UNCHANGED <<None, Stmts, StmtLabelDeclsInScope,
                      ForwardStmtLabelDeclsInScope, IfStmtStack, DoStmtList,
                      Diags, Phase, AssertFailed, Enqueued, PopTrace,
                      ElseOpen, declVars, otherVars>>

ApplyNone ==
  LET R == ApplyNoneTo(None, Rules)
  IN /\ None' = R.None
     /\ Last' = Called("ApplyNone", <<>>, R.Result)
     /\ UNCHANGED <<Rules, Stmts, StmtLabelDeclsInScope,
                    ForwardStmtLabelDeclsInScope, IfStmtStack, DoStmtList,
                    Diags, Phase, AssertFailed, Enqueued, PopTrace,
                    ElseOpen, declVars, otherVars>>

----------------------------------------------------------------------------
----------------------------------------------------------------------------
\* ArrayLoopEmmitter: the loop nest over the sections of an array, as the
\* basic blocks it emits, and the execution of those blocks.

RangeSection(Size) == [Kind |-> "Range", Size |-> Size]
ElementSection == [Kind |-> "Element", Size |-> 1]
isRangeSection(S) == S.Kind = "Range"

\* Instructions.  A counter is named by its dimension.
Store(Val, Var) == [Op |-> "store", Val |-> Val, Var |-> Var, Target |-> 0,
                    Else |-> 0]
\* br (icmp ult (load Var), Size), Then, Else
CondBr(Var, Size, Then, Else) ==
  [Op |-> "condbr", Val |-> Size, Var |-> Var, Target |-> Then, Else |-> Else]
Br(Target) == [Op |-> "br", Val |-> 0, Var |-> 0, Target |-> Target,
               Else |-> 0]
\* Elements[Var] = load Var
Load(Var) == [Op |-> "load", Val |-> 0, Var |-> Var, Target |-> 0, Else |-> 0]
\* store (add (load Var), Val), Var
AddStore(Var, Val) == [Op |-> "add", Val |-> Val, Var |-> Var, Target |-> 0,
                       Else |-> 0]
\* the operation on one element, emitted between Begin and End
ElementOperation == [Op |-> "element", Val |-> 0, Var |-> 0, Target |-> 0,
                     Else |-> 0]

\* The builder: the blocks and the insertion block.
Builder(B, I) == [Blocks |-> B, Insert |-> I]

\* Builder.Create*: the instruction goes to the end of the insertion block.
Create(B, Ins) ==
  IF B.Insert = 0 THEN B
  ELSE Builder([B.Blocks EXCEPT ![B.Insert] = Append(@, Ins)], B.Insert)

\* CGF.createBasicBlock: the new block is the last of B.Blocks
createBasicBlock(B) == Builder(Append(B.Blocks, <<>>), B.Insert)

HasTerminator(B) ==
  /\ B.Insert # 0
  /\ B.Blocks[B.Insert] # <<>>
  /\ B.Blocks[B.Insert][Len(B.Blocks[B.Insert])].Op \in {"br", "condbr"}

\* CGF.EmitBranch: branch unless the block is terminated; clear the insertion
\* point.
EmitBranch(B, Target) ==
  Builder((IF B.Insert = 0 \/ HasTerminator(B) THEN B
           ELSE Create(B, Br(Target))).Blocks, 0)

\* CGF.EmitBlock: fall through to BB and insert there.
EmitBlock(B, BB) == Builder(EmitBranch(B, BB).Blocks, BB)

NoLoop == [EndBlock |-> 0, TestBlock |-> 0, Counter |-> 0]

\* The body of the for loop of EmitArrayIterationBegin for section I; E is
\* the emitter: its builder, Elements and Loops.
BeginSection(E, I) ==
  IF isRangeSection(Sections[I])
  THEN LET Range == Sections[I]
           Var == I
           B1 == Create(E.Builder, Store(0, Var))
           LoopCond == Len(B1.Blocks) + 1
           LoopBody == Len(B1.Blocks) + 2
           LoopEnd == Len(B1.Blocks) + 3
           B2 == createBasicBlock(createBasicBlock(createBasicBlock(B1)))
           B3 == EmitBlock(B2, LoopCond)
           B4 == Create(B3, CondBr(Var, Range.Size, LoopBody, LoopEnd))
           B5 == EmitBlock(B4, LoopBody)
           B6 == Create(B5, Load(Var))
       IN [Builder |-> B6,
           Elements |-> [E.Elements EXCEPT ![I] = Var],
           Loops |-> [E.Loops EXCEPT ![I] =
                        [EndBlock |-> LoopEnd, TestBlock |-> LoopCond,
                         Counter |-> Var]]]
  ELSE [Builder |-> E.Builder,
        Elements |-> [E.Elements EXCEPT ![I] = 0],
        Loops |-> [E.Loops EXCEPT ![I] = NoLoop]]

\* for(auto I = Sections.size(); I != 0;) { --I; ... }, from I down
RECURSIVE BeginFrom_FrontToBack(_, _)
BeginFrom_FrontToBack(E, I) ==
  IF I = 0 THEN E
  ELSE BeginFrom_FrontToBack(BeginSection(E, Len(Sections) + 1 - I), I - 1)

RECURSIVE BeginFrom(_, _)
BeginFrom(E, I) ==
  IF I = 0 THEN E ELSE BeginFrom(BeginSection(E, I), I - 1)

\* ArrayLoopEmmitter::EmitArrayIterationBegin
EmitArrayIterationBegin ==
  /\ EmitPhase = "constructed"
  /\ LET E == BeginFrom([Builder |-> Builder(Blocks, InsertBlock),
                         Elements |-> [I \in 1..Len(Sections) |-> 0],
                         Loops |-> [I \in 1..Len(Sections) |-> NoLoop]],
                        Len(Sections))
     IN /\ Blocks' = E.Builder.Blocks
        /\ InsertBlock' = E.Builder.Insert
        /\ Elements' = E.Elements
        /\ Loops' = E.Loops
  /\ EmitPhase' = "begun"
  /\ UNCHANGED <<Sections, PC, Memory, Registers, Visited, unitVars, declVars,
                 scopeVars, lexVars, evalVars, restVars>>

\* CodeGen::EmitArrayAssignment between Begin and End: the operation on the
\* element that Elements names.
EmitArrayAssignment ==
  /\ EmitPhase = "begun"
  /\ LET B == Create(Builder(Blocks, InsertBlock), ElementOperation)
     IN Blocks' = B.Blocks /\ InsertBlock' = B.Insert
  /\ EmitPhase' = "element"
  /\ UNCHANGED <<Sections, Elements, Loops, PC, Memory, Registers, Visited,
                 unitVars, declVars, scopeVars, lexVars, evalVars, restVars>>

\* The body of the for loop of EmitArrayIterationEnd for the loop I.
EndLoop(B, I) ==
  IF Loops[I].EndBlock # 0
  THEN EmitBlock(EmitBranch(Create(B, AddStore(Loops[I].Counter, 1)),
                            Loops[I].TestBlock),
                 Loops[I].EndBlock)
  ELSE B

\* for(auto Loop : Loops), from the loop I on
RECURSIVE EndFrom(_, _)
EndFrom(B, I) ==
  IF I > Len(Loops) THEN B ELSE EndFrom(EndLoop(B, I), I + 1)

\* ArrayLoopEmmitter::EmitArrayIterationEnd
EmitArrayIterationEnd ==
  /\ EmitPhase = "element"
  /\ LET B == EndFrom(Builder(Blocks, InsertBlock), 1)
     IN Blocks' = B.Blocks /\ InsertBlock' = B.Insert
  /\ EmitPhase' = "emitted"
  /\ UNCHANGED <<Sections, Elements, Loops, PC, Memory, Registers, Visited,
                 unitVars, declVars, scopeVars, lexVars, evalVars, restVars>>

\* icmp ult
ICmpULT(A, B) == A < B

\* The emitted code has run to the end of the block that follows the nest.
Exited == EmitPhase = "emitted" /\ PC[2] > Len(Blocks[PC[1]])

\* One instruction of the emitted code.
Execute ==
  /\ EmitPhase = "emitted" /\ ~Exited
  /\ LET Ins == Blocks[PC[1]][PC[2]]
         Fall == <<PC[1], PC[2] + 1>>
     IN CASE Ins.Op = "store" ->
               /\ Memory' = [Memory EXCEPT ![Ins.Var] = Ins.Val]
               /\ PC' = Fall
               /\ UNCHANGED <<Registers, Visited>>
          [] Ins.Op = "add" ->
               /\ Memory' = [Memory EXCEPT ![Ins.Var] = @ + Ins.Val]
               /\ PC' = Fall
               /\ UNCHANGED <<Registers, Visited>>
          [] Ins.Op = "load" ->
               /\ Registers' = [Registers EXCEPT ![Ins.Var] = Memory[Ins.Var]]
               /\ PC' = Fall
               /\ UNCHANGED <<Memory, Visited>>
          [] Ins.Op = "condbr" ->
               /\ PC' = IF ICmpULT(Memory[Ins.Var], Ins.Val)
                        THEN <<Ins.Target, 1>> ELSE <<Ins.Else, 1>>
               /\ UNCHANGED <<Memory, Registers, Visited>>
          [] Ins.Op = "br" ->
               /\ PC' = <<Ins.Target, 1>>
               /\ UNCHANGED <<Memory, Registers, Visited>>
          [] Ins.Op = "element" ->
               /\ Visited' = Append(Visited,
                    [I \in 1..Len(Sections) |->
                       IF Elements[I] = 0 THEN 0 ELSE Registers[Elements[I]]])
               /\ PC' = Fall
               /\ UNCHANGED <<Memory, Registers>>
  /\ UNCHANGED <<Sections, Elements, Loops, Blocks, InsertBlock, EmitPhase,
                 unitVars, declVars, scopeVars, lexVars, evalVars, restVars>>

\* No loop nest is being emitted.
NoLoopNest ==
  /\ Sections = <<>>
  /\ Elements = <<>>
  /\ Loops = <<>>
  /\ Blocks = <<<<>>>>
  /\ InsertBlock = 1
  /\ EmitPhase = "none"
  /\ PC = <<1, 1>>
  /\ Memory = <<>>
  /\ Registers = <<>>
  /\ Visited = <<>>

\* No driver is running.
NoDriver ==
  /\ Options = <<>>
  /\ Input = <<>>
  /\ Copy = 0
  /\ DriverPC = "none"
  /\ CodeGens = 0
  /\ OutputFiles = <<>>
  /\ Written = <<>>
  /\ Commands = <<>>
  /\ ExitStatus = -1

\* Qualifiers().
NoQualifiers ==
  /\ Mask = {}
  /\ QLast = <<>>

\* Nothing but the front end and the loop emitter is in use.
\* No array reference is being emitted.
NoReference ==
  /\ ArraySections = <<>>
  /\ ElementValues = <<>>
  /\ ElementOffset = -1

\* No function type and no call is being built.
NoCall ==
  /\ Formals = <<>>
  /\ ArgTypes = <<>>
  /\ AdditionalArgTypes = <<>>
  /\ Args = <<>>
  /\ AdditionalArgs = <<>>
  /\ FormalCounts = <<>>
  /\ ActualCounts = <<>>

\* No statement function is being inlined.
NoInlining ==
  /\ InlineScopes = <<>>
  /\ CurInlinedStmtFunc = 0
  /\ InlineTrace = <<>>
  /\ InlinedQuery = <<>>

\* No parse of program units is under way.
NoProgramUnits ==
  /\ UnitTokens = <<>>
  /\ UnitPos = 1
  /\ UnitLoop = "none"
  /\ UnitCalls = 0
  /\ UnitLast = <<>>

RestIdle ==
  /\ NoDriver
  /\ NoQualifiers
  /\ NoReference
  /\ NoCall
  /\ NoInlining
  /\ NoProgramUnits

\* All of them but one are idle.
IdleAsideDriver == NoQualifiers /\ NoReference /\ NoCall /\ NoInlining /\ NoProgramUnits
IdleAsideQualifiers == NoDriver /\ NoReference /\ NoCall /\ NoInlining /\ NoProgramUnits
IdleAsideReference == NoDriver /\ NoQualifiers /\ NoCall /\ NoInlining /\ NoProgramUnits
IdleAsideCall == NoDriver /\ NoQualifiers /\ NoReference /\ NoInlining /\ NoProgramUnits
IdleAsideInlining == NoDriver /\ NoQualifiers /\ NoReference /\ NoCall /\ NoProgramUnits
IdleAsideProgramUnits == NoDriver /\ NoQualifiers /\ NoReference /\ NoCall /\ NoInlining

\* The section lists of at most N sections.
RECURSIVE SectionLists(_)
SectionLists(N) ==
  IF N = 0 THEN {<<>>}
  ELSE LET Shorter == SectionLists(N - 1)
       IN Shorter \cup
            {Append(L, S) : L \in {X \in Shorter : Len(X) = N - 1},
                            S \in {ElementSection}
                                    \cup {RangeSection(Size) :
                                            Size \in 0..MaxSize}}

----------------------------------------------------------------------------
\* Values.  A natural number is the sequence of its digits in radix Radix,
\* least significant first, without leading zero digits; zero is <<>>.  An
\* llvm::APInt of 64 bits is the natural number below 2^64 its bits spell.

Radix == 2^15

Digit(A, I) == IF I <= Len(A) THEN A[I] ELSE 0

RECURSIVE Norm(_)
Norm(A) ==
  IF A = <<>> THEN A
  ELSE IF A[Len(A)] = 0 THEN Norm(SubSeq(A, 1, Len(A) - 1)) ELSE A

RECURSIVE AddFrom(_, _, _, _)
AddFrom(A, B, I, Carry) ==
  IF I > Len(A) /\ I > Len(B)
  THEN IF Carry = 0 THEN <<>> ELSE <<Carry>>
  ELSE LET S == Digit(A, I) + Digit(B, I) + Carry
       IN <<S % Radix>> \o AddFrom(A, B, I + 1, S \div Radix)

NatAdd(A, B) == AddFrom(A, B, 1, 0)

\* A - B for A >= B
RECURSIVE SubFrom(_, _, _, _)
SubFrom(A, B, I, Borrow) ==
  IF I > Len(A) THEN <<>>
  ELSE LET S == Digit(A, I) - Digit(B, I) - Borrow
       IN IF S < 0 THEN <<S + Radix>> \o SubFrom(A, B, I + 1, 1)
          ELSE <<S>> \o SubFrom(A, B, I + 1, 0)

NatSub(A, B) == Norm(SubFrom(A, B, 1, 0))

RECURSIVE LessFrom(_, _, _)
LessFrom(A, B, I) ==
  IF I = 0 THEN FALSE
  ELSE IF A[I] # B[I] THEN A[I] < B[I] ELSE LessFrom(A, B, I - 1)

NatLess(A, B) ==
  IF Len(A) # Len(B) THEN Len(A) < Len(B) ELSE LessFrom(A, B, Len(A))

RECURSIVE MulDigitFrom(_, _, _, _)
MulDigitFrom(A, D, I, Carry) ==
  IF I > Len(A) THEN IF Carry = 0 THEN <<>> ELSE <<Carry>>
  ELSE LET S == A[I] * D + Carry
       IN <<S % Radix>> \o MulDigitFrom(A, D, I + 1, S \div Radix)

NatMulDigit(A, D) == Norm(MulDigitFrom(A, D, 1, 0))

ShiftDigit(A) == IF A = <<>> THEN A ELSE <<0>> \o A

RECURSIVE MulFrom(_, _, _)
MulFrom(A, B, J) ==
  IF J > Len(B) THEN <<>>
  ELSE NatAdd(NatMulDigit(A, B[J]), ShiftDigit(MulFrom(A, B, J + 1)))

NatMul(A, B) == MulFrom(A, B, 1)

\* The largest digit Q in Lo..Hi with B * Q <= R, for B * Lo <= R.
RECURSIVE QuotientDigit(_, _, _, _)
QuotientDigit(B, R, Lo, Hi) ==
  IF Lo = Hi THEN Lo
  ELSE LET Mid == (Lo + Hi + 1) \div 2
       IN IF NatLess(R, NatMulDigit(B, Mid))
          THEN QuotientDigit(B, R, Lo, Mid - 1)
          ELSE QuotientDigit(B, R, Mid, Hi)

\* Long division of the digits I..1 of A by B # 0, with remainder Rem so far.
RECURSIVE DivFrom(_, _, _, _)
DivFrom(A, B, I, Rem) ==
  IF I = 0 THEN <<>>
  ELSE LET R == Norm(<<A[I]>> \o Rem)
           Q == QuotientDigit(B, R, 0, Radix - 1)
       IN DivFrom(A, B, I - 1, NatSub(R, NatMulDigit(B, Q))) \o <<Q>>

NatDiv(A, B) == Norm(DivFrom(A, B, Len(A), <<>>))

\* 2^63 and 2^64 (five digits: 4 * 15 bits and the 4 bits on top)
Two63 == <<0, 0, 0, 0, 8>>
Two64 == <<0, 0, 0, 0, 16>>
\* std::numeric_limits<int64_t>::max()
MaxInt64 == NatSub(Two63, <<1>>)

\* The value of a 64-bit APInt: the low 64 bits of N.
Trunc64(N) ==
  Norm([I \in 1..(IF Len(N) < 5 THEN Len(N) ELSE 5) |->
          IF I = 5 THEN N[I] % 16 ELSE N[I]])

\* APInt::isNonNegative, APInt::isNegative
isNonNegative(W) == NatLess(W, Two63)
isNegative(W) == ~isNonNegative(W)

\* Two's complement negation, APInt::operator-
Neg64(W) == Trunc64(NatSub(Two64, W))

\* The integer a 64-bit APInt stands for when read as signed, and back.
MkInt(IsNeg, Mag) == [Neg |-> IsNeg /\ Mag # <<>>, Mag |-> Mag]
Signed(W) == IF isNegative(W) THEN MkInt(TRUE, NatSub(Two64, W))
             ELSE MkInt(FALSE, W)
FitsInt64(Z) == IF Z.Neg THEN ~NatLess(Two63, Z.Mag) ELSE NatLess(Z.Mag, Two63)

\* Integer arithmetic without bound.
IntNeg(X) == MkInt(~X.Neg, X.Mag)
IntAdd(X, Y) ==
  IF X.Neg = Y.Neg THEN MkInt(X.Neg, NatAdd(X.Mag, Y.Mag))
  ELSE IF NatLess(X.Mag, Y.Mag) THEN MkInt(Y.Neg, NatSub(Y.Mag, X.Mag))
  ELSE MkInt(X.Neg, NatSub(X.Mag, Y.Mag))
IntSub(X, Y) == IntAdd(X, IntNeg(Y))
IntMul(X, Y) == MkInt(X.Neg # Y.Neg, NatMul(X.Mag, Y.Mag))
\* X / Y truncated toward zero, for Y # 0
IntDiv(X, Y) == MkInt(X.Neg # Y.Neg, NatDiv(X.Mag, Y.Mag))

\* APInt::sadd_ov, ssub_ov, smul_ov, sdiv_ov: the wrapped result and whether
\* the signed result overflowed.
sadd_ov(A, B) ==
  LET Res == Trunc64(NatAdd(A, B))
  IN [Res |-> Res,
      Overflow |-> /\ isNonNegative(A) = isNonNegative(B)
                   /\ isNonNegative(Res) # isNonNegative(A)]

ssub_ov(A, B) ==
  LET Res == Trunc64(NatAdd(A, Neg64(B)))
  IN [Res |-> Res,
      Overflow |-> /\ isNonNegative(A) # isNonNegative(B)
                   /\ isNonNegative(Res) # isNonNegative(A)]

smul_ov(A, B) ==
  [Res |-> Trunc64(NatMul(A, B)),
   Overflow |-> ~FitsInt64(IntMul(Signed(A), Signed(B)))]

\* APInt::sdiv for RHS # 0
sdiv(A, B) ==
  IF isNegative(A)
  THEN IF isNegative(B) THEN NatDiv(Neg64(A), Neg64(B))
       ELSE Neg64(NatDiv(Neg64(A), B))
  ELSE IF isNegative(B) THEN Neg64(NatDiv(A, Neg64(B)))
  ELSE NatDiv(A, B)

sdiv_ov(A, B) ==
  [Res |-> sdiv(A, B),
   Overflow |-> A = Two63 /\ B = NatSub(Two64, <<1>>)]

----------------------------------------------------------------------------
\* Expressions and the evaluator of integer constant expressions.

IntegerConstantExpr(Value) ==
  [Kind |-> "IntegerConstantExpr", Type |-> "Integer", Value |-> Value]

RealConstantExpr == [Kind |-> "RealConstantExpr", Type |-> "Real"]

LogicalConstantExpr == [Kind |-> "LogicalConstantExpr", Type |-> "Logical"]

ArrayElementExpr == [Kind |-> "ArrayElementExpr", Type |-> "Integer"]

\* A reference to a variable; Init is the initializer of a PARAMETER.
VarExpr(T, IsParameter, Init) ==
  [Kind |-> "VarExpr", Type |-> T, Parameter |-> IsParameter, Init |-> Init]

UnaryExpr(Op, T, E) ==
  [Kind |-> "UnaryExpr", Op |-> Op, Type |-> T, Expr |-> E]

BinaryExpr(Op, T, LHS, RHS) ==
  [Kind |-> "BinaryExpr", Op |-> Op, Type |-> T, LHS |-> LHS, RHS |-> RHS]

ArithmeticOperators == {"Plus", "Minus", "Multiply", "Divide", "Power"}

\* IntValueTy() leaves the value of Result unset.
Uninitialized == <<Radix>>

\* What a visit returns, and Result after it.
Evaluated(Ok, R) == [Success |-> Ok, Result |-> R, Undefined |-> FALSE]

\* A visit that divided by zero in APInt::sdiv.
UndefinedBehaviour ==
  [Success |-> FALSE, Result |-> Uninitialized, Undefined |-> TRUE]

\* APInt::getLimitedValue()
getLimitedValue(I) == IF NatLess(I, Two64) THEN I ELSE NatSub(Two64, <<1>>)

\* IntValueTy::IsProperSignedInt<int64_t>
IsProperSignedInt(W) ==
  IF isNonNegative(W) THEN ~NatLess(MaxInt64, W) ELSE TRUE

\* IntValueTy::Assign<int64_t>
Assign(I) ==
  LET u64 == getLimitedValue(I)
  IN IF ~NatLess(MaxInt64, u64) THEN Evaluated(TRUE, u64)
     ELSE Evaluated(FALSE, <<1>>)

\* IntExprEvaluator::CheckResult after Result = R.Res
CheckResult(R) ==
  Evaluated(~(R.Overflow \/ ~IsProperSignedInt(R.Res)), R.Res)

\* The loop of BinaryExpr::Power: Sum after I of N multiplications.
RECURSIVE PowerLoop(_, _, _, _)
PowerLoop(Sum, R, I, N) ==
  IF ~NatLess(I, N) THEN CheckResult([Res |-> Sum, Overflow |-> FALSE])
  ELSE LET M == smul_ov(Sum, R)
       IN IF M.Overflow \/ ~IsProperSignedInt(M.Res)
          THEN Evaluated(FALSE, R)
          ELSE PowerLoop(M.Res, R, NatAdd(I, <<1>>), N)

\* IntExprEvaluator::Eval, with the Visit methods it dispatches to; R is the
\* member Result when the visit starts.
\* The switch of IntExprEvaluator::VisitBinaryExpr on the operator, with the
\* values LHS and RHS of the operands.
BinaryOperator(Op, LHS, RHS) ==
  CASE Op = "Plus" -> CheckResult(sadd_ov(LHS, RHS))
    [] Op = "Minus" -> CheckResult(ssub_ov(LHS, RHS))
    [] Op = "Multiply" -> CheckResult(smul_ov(LHS, RHS))
    [] Op = "Divide" -> IF RHS = <<>> THEN UndefinedBehaviour
                        ELSE CheckResult(sdiv_ov(LHS, RHS))
    [] Op = "Power" -> IF isNegative(RHS) THEN Evaluated(FALSE, LHS)
                       ELSE PowerLoop(<<1>>, LHS, <<>>, RHS)
    [] OTHER -> Evaluated(FALSE, LHS)

\* IntExprEvaluator::Eval, with the Visit methods it dispatches to; R is the
\* member Result when the visit starts.
RECURSIVE Eval(_, _)
Eval(E, R) ==
  IF ~isIntegerType(E.Type) THEN Evaluated(FALSE, R)
  ELSE CASE E.Kind = "IntegerConstantExpr" -> Assign(E.Value)
         [] E.Kind = "UnaryExpr" /\ E.Op = "Minus" ->
              LET S == Eval(E.Expr, R)
              IN IF S.Undefined \/ ~S.Success THEN S
                 ELSE CheckResult(ssub_ov(<<>>, S.Result))
         [] E.Kind = "UnaryExpr" /\ E.Op = "Plus" -> Eval(E.Expr, R)
         [] E.Kind = "BinaryExpr" ->
              LET RHS == Eval(E.RHS, R)
              IN IF RHS.Undefined \/ ~RHS.Success THEN RHS
                 ELSE LET LHS == Eval(E.LHS, RHS.Result)
                      IN IF LHS.Undefined \/ ~LHS.Success THEN LHS
                         ELSE BinaryOperator(E.Op, LHS.Result, RHS.Result)
         [] E.Kind = "VarExpr" ->
              IF E.Parameter THEN Eval(E.Init, R) ELSE Evaluated(FALSE, R)
         [] OTHER -> Evaluated(FALSE, R)

\* IntExprEvaluator::getResult
getResult(W) == IF IsProperSignedInt(W) THEN W ELSE <<1>>

\* Expr::EvaluateAsInt.  A division by zero is undefined in APInt::sdiv: the
\* call traps, or returns anything.  So is the value of a Result that no
\* visit has set.
EvaluateAsInt ==
  /\ EvalPhase = "built"
  /\ LET EV == Eval(ThisExpr, Uninitialized)
     IN IF EV.Undefined
        THEN \/ /\ EvalPhase' = "trapped"
                /\ UNCHANGED <<Success, IntResult>>
             \/ /\ EvalPhase' = "returned"
                /\ Success' \in BOOLEAN
                /\ IntResult' \in {<<>>, <<1>>}
        ELSE /\ EvalPhase' = "returned"
             /\ Success' = EV.Success
             /\ IF EV.Result = Uninitialized
                THEN IntResult' \in {<<>>, <<1>>}
                ELSE IntResult' = getResult(EV.Result)
  /\ UNCHANGED <<ThisExpr, Diags, Last, unitRest, declVars, scopeVars,
                 lexVars, loopVars, restVars>>

\* The operands the expressions are built from: the literals 0, 1, 2^63 - 1
\* and 2^63, a real and a logical literal, an array element and a variable
\* that is no PARAMETER.
Operands ==
  {IntegerConstantExpr(<<>>), IntegerConstantExpr(<<1>>),
   IntegerConstantExpr(Two63), ArrayElementExpr}

FirstOperands ==
  Operands \cup {IntegerConstantExpr(<<2>>), IntegerConstantExpr(MaxInt64),
                 RealConstantExpr, LogicalConstantExpr,
                 VarExpr("Integer", FALSE, <<>>)}

RECURSIVE Depth(_)
Depth(E) ==
  CASE E.Kind = "UnaryExpr" -> 1 + Depth(E.Expr)
    [] E.Kind = "BinaryExpr" ->
         1 + (IF Depth(E.LHS) > Depth(E.RHS) THEN Depth(E.LHS)
              ELSE Depth(E.RHS))
    [] E.Kind = "VarExpr" /\ E.Parameter -> 1 + Depth(E.Init)
    [] OTHER -> 0

\* The type of LHS Op RHS.
BinaryType(Op, LHS, RHS) ==
  IF Op \notin ArithmeticOperators THEN "Logical"
  ELSE IF isIntegerType(LHS.Type) THEN RHS.Type ELSE LHS.Type

\* The exponent folds to a value the loop of ** is followed for.
ExponentBounded(Op, RHS) ==
  LET EV == Eval(RHS, Uninitialized)
  IN \/ Op # "Power"
     \/ EV.Undefined \/ ~EV.Success
     \/ isNegative(EV.Result)
     \/ ~NatLess(<<MaxExponent>>, EV.Result)

\* UnaryExpr::Create on the expression built so far
CreateUnaryExpr ==
  /\ EvalPhase # "built" /\ Depth(ThisExpr) < MaxDepth
  /\ \E Op \in {"Plus", "Minus", "Not"} :
       ThisExpr' = UnaryExpr(Op, IF Op = "Not" THEN "Logical"
                                 ELSE ThisExpr.Type, ThisExpr)
  /\ EvalPhase' = "built"
  /\ UNCHANGED <<Success, IntResult, Diags, Last, unitRest, declVars, scopeVars,
                 lexVars, loopVars, restVars>>

\* BinaryExpr::Create with the expression built so far on either side
CreateBinaryExpr ==
  /\ EvalPhase # "built" /\ Depth(ThisExpr) < MaxDepth
  /\ \E Op \in ArithmeticOperators \cup {"LessThan"}, Other \in Operands,
        OnLeft \in BOOLEAN :
       LET LHS == IF OnLeft THEN ThisExpr ELSE Other
           RHS == IF OnLeft THEN Other ELSE ThisExpr
       IN /\ ExponentBounded(Op, RHS)
          /\ ThisExpr' = BinaryExpr(Op, BinaryType(Op, LHS, RHS), LHS, RHS)
  /\ EvalPhase' = "built"
  /\ UNCHANGED <<Success, IntResult, Diags, Last, unitRest, declVars, scopeVars,
                 lexVars, loopVars, restVars>>

\* A reference to a PARAMETER whose initializer is the expression built so far
CreateVarExpr ==
  /\ EvalPhase # "built" /\ Depth(ThisExpr) < MaxDepth
  /\ ThisExpr' = VarExpr(ThisExpr.Type, TRUE, ThisExpr)
  /\ EvalPhase' = "built"
  /\ UNCHANGED <<Success, IntResult, Diags, Last, unitRest, declVars, scopeVars,
                 lexVars, loopVars, restVars>>

----------------------------------------------------------------------------
\* Parser::Lex: the one-token lookahead and the merging of compound keywords.

\* tok::TokenKind: the kinds that are not keywords, and tok::kw_<K>.
tok_unknown == <<"unknown">>
tok_eof == <<"eof">>
tok_identifier == <<"identifier">>
tok_comma == <<"comma">>
kw(K) == <<"kw", K>>

\* Token::startToken()
StartToken ==
  [Kind |-> tok_unknown, Spelling |-> "", Loc |-> 0,
   StartOfStatement |-> FALSE]

\* The keyword table, as far as Parser::Lex names its kinds.
KeywordSpellings ==
  {"BLOCK", "DATA", "ELSE", "IF", "WHERE", "END", "DO", "FUNCTION", "FORALL",
   "ENUM", "SELECT", "TYPE", "MODULE", "PROGRAM", "ASSOCIATE", "FILE",
   "INTERFACE", "BLOCKDATA", "ENDBLOCK", "GO", "TO", "CASE", "IN", "OUT",
   "DOUBLE", "PRECISION"}

\* Identifiers.lookupKeyword(NameStr)->getTokenID(): tok::kw_<NameStr>
lookupKeyword(NameStr) == kw(NameStr)

\* Parser::ClassifyToken
ClassifyToken(T) ==
  IF T.Kind # tok_identifier THEN T
  ELSE IF T.Spelling \in KeywordSpellings
  THEN [T EXCEPT !.Kind = lookupKeyword(T.Spelling)]
  ELSE T

\* MERGE_TOKENS(A, B) per case of the switch: <<A, B, A ## B>>
MergeTokens ==
  {<<"BLOCK", "DATA", "BLOCKDATA">>,
   <<"ELSE", "IF", "ELSEIF">>,
   <<"ELSE", "WHERE", "ELSEWHERE">>,
   <<"END", "IF", "ENDIF">>,
   <<"END", "DO", "ENDDO">>,
   <<"END", "FUNCTION", "ENDFUNCTION">>,
   <<"END", "FORALL", "ENDFORALL">>,
   <<"END", "WHERE", "ENDWHERE">>,
   <<"END", "ENUM", "ENDENUM">>,
   <<"END", "SELECT", "ENDSELECT">>,
   <<"END", "TYPE", "ENDTYPE">>,
   <<"END", "MODULE", "ENDMODULE">>,
   <<"END", "PROGRAM", "ENDPROGRAM">>,
   <<"END", "ASSOCIATE", "ENDASSOCIATE">>,
   <<"END", "FILE", "ENDFILE">>,
   <<"END", "INTERFACE", "ENDINTERFACE">>,
   <<"END", "BLOCKDATA", "ENDBLOCKDATA">>,
   <<"ENDBLOCK", "DATA", "ENDBLOCKDATA">>,
   <<"GO", "TO", "GOTO">>,
   <<"SELECT", "CASE", "SELECTCASE">>,
   <<"SELECT", "TYPE", "SELECTTYPE">>,
   <<"IN", "OUT", "INOUT">>,
   <<"DOUBLE", "PRECISION", "DOUBLEPRECISION">>}

\* The switch of Parser::Lex on the kinds of Tok and NextTok: the merged
\* kind, or "unknown" when the switch returns without merging.
MergedKind(TokKind, NextKind) ==
  IF \E M \in MergeTokens : TokKind = kw(M[1]) /\ NextKind = kw(M[2])
  THEN kw((CHOOSE M \in MergeTokens :
              TokKind = kw(M[1]) /\ NextKind = kw(M[2]))[3])
  ELSE tok_unknown

\* The spellings and the raw tokens the buffers are made of; the lexer flags
\* the first token of each statement.
Spellings == {"END", "BLOCK", "DATA", "ENDBLOCK", "ELSE", "IF", "SELECT",
              "CASE", "GO", "TO", "X"}

RawKinds ==
  [Kind : {tok_identifier}, Spelling : Spellings, StartOfStatement : BOOLEAN]
  \cup [Kind : {tok_comma}, Spelling : {""}, StartOfStatement : BOOLEAN]

RECURSIVE Buffers(_)
Buffers(N) ==
  IF N = 0 THEN {<<>>}
  ELSE LET Shorter == Buffers(N - 1)
       IN Shorter \cup {Append(B, R) : B \in {S \in Shorter : Len(S) = N - 1},
                                       R \in RawKinds}

\* TheLexer.Lex(T) at position Pos: the raw token there, tok::eof past the end.
LexerLex(Pos) ==
  IF Pos <= Len(Source)
  THEN [Kind |-> Source[Pos].Kind, Spelling |-> Source[Pos].Spelling,
        Loc |-> Pos, StartOfStatement |-> Source[Pos].StartOfStatement]
  ELSE [Kind |-> tok_eof, Spelling |-> "", Loc |-> Len(Source) + 1,
        StartOfStatement |-> FALSE]

LexerNext(Pos) == IF Pos <= Len(Source) THEN Pos + 1 ELSE Pos

\* Parser::Lex.  The parser stops lexing at tok::eof.
Lex ==
  /\ Tok.Kind # tok_eof
  /\ LET FromNext == NextTok.Kind # tok_unknown
         Tok1 == IF FromNext THEN NextTok ELSE ClassifyToken(LexerLex(LexPos))
         Pos1 == IF FromNext THEN LexPos ELSE LexerNext(LexPos)
         Next1 == ClassifyToken(LexerLex(Pos1))
         Pos2 == LexerNext(Pos1)
         Next2 == ClassifyToken(LexerLex(Pos2))
         Pos3 == LexerNext(Pos2)
         Next3 == ClassifyToken(LexerLex(Pos3))
         Pos4 == LexerNext(Pos3)
         Merged == MergedKind(Tok1.Kind, Next1.Kind)
     IN /\ IF Tok1.Kind = tok_eof
           THEN /\ Tok' = Tok1
                /\ LexPos' = Pos1
                /\ UNCHANGED <<NextTok, Diags>>
           ELSE IF Merged # tok_unknown
           THEN /\ Tok' = [Tok1 EXCEPT !.Kind = Merged]
                /\ NextTok' = Next2
                /\ LexPos' = Pos3
                /\ UNCHANGED Diags
           ELSE IF Tok1.Kind = kw("END") /\ Next1.Kind = kw("BLOCK")
           THEN IF Next2.Kind # kw("DATA")
                THEN /\ Tok' = Next1
                     /\ NextTok' = Next2
                     /\ LexPos' = Pos3
                     /\ Diags' = <<Diag("expected 'DATA' after 'BLOCK' keyword",
                                        Next2.Loc, 0)>>
                ELSE /\ Tok' = [Next1 EXCEPT !.Kind = kw("ENDBLOCKDATA")]
                     /\ NextTok' = Next3
                     /\ LexPos' = Pos4
                     /\ UNCHANGED Diags
           ELSE /\ Tok' = Tok1
                /\ NextTok' = Next1
                /\ LexPos' = Pos2
                /\ UNCHANGED Diags
        /\ Produced' = Append(Produced, Tok')
  /\ UNCHANGED <<Source, Last, unitRest, declVars, scopeVars, evalVars,
                 loopVars, restVars>>

\* A parser constructed on each buffer of at most MaxTokens raw tokens.
InitLex ==
  /\ RestIdle
  /\ Source \in Buffers(MaxTokens)
  /\ LexPos = 1
  /\ Tok = StartToken
  /\ NextTok = StartToken
  /\ Produced = <<>>
  /\ ThisExpr = IntegerConstantExpr(<<>>)
  /\ EvalPhase = "built"
  /\ Success = FALSE
  /\ IntResult = <<>>
  /\ NoLoopNest
  /\ Diags = <<>>
  /\ Last = Call("Sema", 0, 0, <<>>, TRUE, 0)
  /\ Stmts = <<>>
  /\ StmtLabelDeclsInScope = {}
  /\ ForwardStmtLabelDeclsInScope = <<>>
  /\ IfStmtStack = <<>>
  /\ DoStmtList = <<>>
  /\ Phase = "outside"
  /\ AssertFailed = FALSE
  /\ Enqueued = <<>>
  /\ PopTrace = <<>>
  /\ ElseOpen = {}
  /\ CurContext = 0
  /\ DeclContexts = <<[Kind |-> "TranslationUnit", Parent |-> 0,
                       Name |-> <<>>, Decls |-> <<>>]>>
  /\ VarDecls = <<>>
  /\ FETokenInfo = [n \in Names |-> 0]
  /\ DeclAssertFailed = {}
  /\ Entered = <<>>
  /\ None = FALSE
  /\ Rules = {}

NextLex == Lex

SpecLex == InitLex /\ [][NextLex]_vars

----------------------------------------------------------------------------
\* An evaluator for each first operand.
InitEval ==
  /\ RestIdle
  /\ ThisExpr \in FirstOperands
  /\ EvalPhase = "built"
  /\ Success = FALSE
  /\ IntResult = <<>>
  /\ NoLoopNest
  /\ Source = <<>>
  /\ LexPos = 1
  /\ Tok = StartToken
  /\ NextTok = StartToken
  /\ Produced = <<>>
  /\ Diags = <<>>
  /\ Last = Call("Sema", 0, 0, <<>>, TRUE, 0)
  /\ Stmts = <<>>
  /\ StmtLabelDeclsInScope = {}
  /\ ForwardStmtLabelDeclsInScope = <<>>
  /\ IfStmtStack = <<>>
  /\ DoStmtList = <<>>
  /\ Phase = "outside"
  /\ AssertFailed = FALSE
  /\ Enqueued = <<>>
  /\ PopTrace = <<>>
  /\ ElseOpen = {}
  /\ CurContext = 0
  /\ DeclContexts = <<[Kind |-> "TranslationUnit", Parent |-> 0,
                       Name |-> <<>>, Decls |-> <<>>]>>
  /\ VarDecls = <<>>
  /\ FETokenInfo = [n \in Names |-> 0]
  /\ DeclAssertFailed = {}
  /\ Entered = <<>>
  /\ None = FALSE
  /\ Rules = {}

\* ArrayLoopEmmitter Looper(*this, Sections) in the entry block of a
\* function, for each list of sections.
InitLoop ==
  /\ RestIdle
  /\ Sections \in SectionLists(MaxDims)
  /\ Elements = <<>>
  /\ Loops = <<>>
  /\ Blocks = <<<<>>>>
  /\ InsertBlock = 1
  /\ EmitPhase = "constructed"
  /\ PC = <<1, 1>>
  /\ Memory = [I \in 1..Len(Sections) |-> -1]
  /\ Registers = [I \in 1..Len(Sections) |-> -1]
  /\ Visited = <<>>
  /\ ThisExpr = IntegerConstantExpr(<<>>)
  /\ EvalPhase = "built"
  /\ Success = FALSE
  /\ IntResult = <<>>
  /\ Source = <<>>
  /\ LexPos = 1
  /\ Tok = StartToken
  /\ NextTok = StartToken
  /\ Produced = <<>>
  /\ Diags = <<>>
  /\ Last = Call("Sema", 0, 0, <<>>, TRUE, 0)
  /\ Stmts = <<>>
  /\ StmtLabelDeclsInScope = {}
  /\ ForwardStmtLabelDeclsInScope = <<>>
  /\ IfStmtStack = <<>>
  /\ DoStmtList = <<>>
  /\ Phase = "outside"
  /\ AssertFailed = FALSE
  /\ Enqueued = <<>>
  /\ PopTrace = <<>>
  /\ ElseOpen = {}
  /\ CurContext = 0
  /\ DeclContexts = <<[Kind |-> "TranslationUnit", Parent |-> 0,
                       Name |-> <<>>, Decls |-> <<>>]>>
  /\ VarDecls = <<>>
  /\ FETokenInfo = [n \in Names |-> 0]
  /\ DeclAssertFailed = {}
  /\ Entered = <<>>
  /\ None = FALSE
  /\ Rules = {}

NextLoop ==
  \/ EmitArrayIterationBegin
  \/ EmitArrayAssignment
  \/ EmitArrayIterationEnd
  \/ Execute

SpecLoop == InitLoop /\ [][NextLoop]_vars

\* The processor takes the next instruction of the emitted code.
SpecLoopRun == SpecLoop /\ WF_vars(Execute)

NextEval ==
  \/ EvaluateAsInt
  \/ CreateUnaryExpr
  \/ CreateBinaryExpr
  \/ CreateVarExpr

SpecEval == InitEval /\ [][NextEval]_vars

Init ==
  /\ Stmts = <<>>
  /\ StmtLabelDeclsInScope = {}
  /\ ForwardStmtLabelDeclsInScope = <<>>
  /\ IfStmtStack = <<>>
  /\ DoStmtList = <<>>
  /\ Diags = <<>>
  /\ Last = Call("Sema", 0, 0, <<>>, TRUE, 0)
  /\ Phase = "outside"
  /\ AssertFailed = FALSE
  /\ Enqueued = <<>>
  /\ PopTrace = <<>>
  /\ ElseOpen = {}
  /\ CurContext = 0
  /\ DeclContexts = <<[Kind |-> "TranslationUnit", Parent |-> 0,
                       Name |-> <<>>, Decls |-> <<>>]>>
  /\ VarDecls = <<>>
  /\ FETokenInfo = [n \in Names |-> 0]
  /\ DeclAssertFailed = {}
  /\ Entered = <<>>
  /\ None = FALSE
  /\ Rules = {}
  /\ Source = <<>>
  /\ LexPos = 1
  /\ Tok = StartToken
  /\ NextTok = StartToken
  /\ Produced = <<>>
  /\ ThisExpr = IntegerConstantExpr(<<>>)
  /\ EvalPhase = "built"
  /\ Success = FALSE
  /\ IntResult = <<>>
  /\ NoLoopNest
  /\ RestIdle

Next ==
  /\ \/ ActOnPROGRAM
     \/ PushExecutableProgramUnit
     \/ ActOnContinueStmt
     \/ ActOnStopStmt
     \/ ActOnGotoStmt
     \/ ActOnAssignStmt
     \/ ActOnAssignedGotoStmt
     \/ ActOnIfStmtBody
     \/ ActOnIfStmt
     \/ ActOnElseIfStmt
     \/ ActOnElseStmt
     \/ ActOnEndIfStmt
     \/ ActOnDoStmt
     \/ ActOnAssignmentStmt
     \/ ActOnENDPROGRAM
     \/ PopExecutableProgramUnit
  /\ UNCHANGED nonUnitVars

Spec == Init /\ [][Next]_vars

\* Program units made of labelled statements and label references.
NextLabel ==
  /\ \/ PushExecutableProgramUnit
     \/ ActOnContinueStmt
     \/ ActOnGotoStmt
     \/ ActOnAssignStmt
     \/ ActOnAssignedGotoStmt
     \/ PopExecutableProgramUnit
  /\ UNCHANGED nonUnitVars

SpecLabel == Init /\ [][NextLabel]_vars

\* Program units made of IF constructs.
NextIf ==
  /\ \/ PushExecutableProgramUnit
     \/ ActOnIfStmt
     \/ ActOnElseIfStmt
     \/ ActOnElseStmt
     \/ ActOnEndIfStmt
     \/ PopExecutableProgramUnit
  /\ UNCHANGED nonUnitVars

SpecIf == Init /\ [][NextIf]_vars

\* Program units made of DO statements and labelled statements.
NextDoLabel ==
  /\ \/ PushExecutableProgramUnit
     \/ ActOnContinueStmt
     \/ ActOnDoStmt
     \/ PopExecutableProgramUnit
  /\ UNCHANGED nonUnitVars

SpecDoLabel == Init /\ [][NextDoLabel]_vars

\* Program units made of DO statements and their terminators.
NextDo ==
  /\ \/ PushExecutableProgramUnit
     \/ ActOnDoStmt
     \/ ActOnContinueStmt
     \/ ActOnStopStmt
     \/ ActOnIfStmtBody
     \/ ActOnENDPROGRAM
     \/ PopExecutableProgramUnit
  /\ UNCHANGED nonUnitVars

SpecDo == Init /\ [][NextDo]_vars

\* Program units that begin with a PROGRAM statement.
NextUnit ==
  /\ \/ ActOnPROGRAM
     \/ PushExecutableProgramUnit
     \/ ActOnContinueStmt
     \/ ActOnGotoStmt
     \/ PopExecutableProgramUnit
  /\ UNCHANGED nonUnitVars

SpecUnit == Init /\ [][NextUnit]_vars

\* Program units made of assignment statements.
NextAssign ==
  /\ \/ PushExecutableProgramUnit
     \/ ActOnAssignmentStmt
     \/ PopExecutableProgramUnit
  /\ UNCHANGED nonUnitVars

SpecAssign == Init /\ [][NextAssign]_vars

\* Any sequence of calls on one ImplicitTypingScope.
NextScope ==
  \/ Apply
  \/ ApplyNone

SpecScope == Init /\ [][NextScope]_vars

\* Any sequence of the calls that enter and leave declaration contexts.
NextContext ==
  \/ ActOnTranslationUnit
  \/ ActOnMainProgram
  \/ ActOnDerivedTypeDecl
  \/ ActOnEndDerivedTypeDecl
  \/ ActOnEndMainProgram

SpecContext == Init /\ [][NextContext]_vars

\* A main program without a PROGRAM statement.
UnnamedMainProgram ==
  /\ ActOnMainProgram
  /\ DeclContexts'[Len(DeclContexts')].Name = NoName

\* Unnamed main programs made of entity declarations.
NextEntity ==
  \/ ActOnTranslationUnit
  \/ UnnamedMainProgram
  \/ ActOnEntityDecl
  \/ ActOnEndMainProgram

SpecEntity == Init /\ [][NextEntity]_vars

\* Unnamed main programs made of references to undeclared identifiers.
NextImplicitDecl ==
  \/ ActOnTranslationUnit
  \/ UnnamedMainProgram
  \/ ActOnImplicitEntityDecl
  \/ ActOnEndMainProgram

SpecImplicitDecl == Init /\ [][NextImplicitDecl]_vars

\* Unnamed main programs made of IMPLICIT statements and references to
\* undeclared identifiers.
NextImplicit ==
  \/ ActOnTranslationUnit
  \/ UnnamedMainProgram
  \/ ActOnIMPLICIT
  \/ ActOnIMPLICITNone
  \/ ActOnImplicitEntityDecl
  \/ ActOnEndMainProgram

SpecImplicit == Init /\ [][NextImplicit]_vars

----------------------------------------------------------------------------
\* Properties

\* The first statement of the unit that bears the label, 0 if there is none.
FirstLabelled(StmtLabel) ==
  LET I == {i \in 1..Len(Stmts) : Stmts[i].StmtLabel = StmtLabel}
  IN IF I = {} THEN 0 ELSE CHOOSE i \in I : \A j \in I : i <= j

Redefinitions(StmtLabel) ==
  SelectSeq(Diags, LAMBDA D : D.ID = "err_redefinition_of_stmt_label"
                               /\ D.Arg = StmtLabel)

\* C1: the label scope maps each label to at most one statement, namely the
\* first statement of the unit that bears it.  A statement built with a label
\* that already resolves reports one 'redefinition of statement label' and
\* the label keeps resolving to the first statement; a statement built with
\* a new label is inserted and reports nothing.
C1_LabelUniqueness ==
  /\ \A p, q \in StmtLabelDeclsInScope : p[1] = q[1] => p = q
  /\ Phase # "outside" =>
       StmtLabelDeclsInScope =
         {<<l, FirstLabelled(l)>> : l \in {k \in Labels : FirstLabelled(k) # 0}}
  /\ (Last.Result # 0 /\ Last.StmtLabel # 0) =>
       IF FirstLabelled(Last.StmtLabel) < Last.Result
       THEN /\ Len(Redefinitions(Last.StmtLabel)) = 1
            /\ Resolve(Last.StmtLabel) = FirstLabelled(Last.StmtLabel)
       ELSE /\ Len(Redefinitions(Last.StmtLabel)) = 0
            /\ Resolve(Last.StmtLabel) = Last.Result

C1_Witness ==
  /\ Last.Result # 0 /\ Last.StmtLabel # 0
  /\ FirstLabelled(Last.StmtLabel) < Last.Result
  /\ Len(Redefinitions(Last.StmtLabel)) = 1


Popped == Last.Op = "PopExecutableProgramUnit"

\* The field of its statement that a forward reference stands for.
RefField(Ref) ==
  CASE Ref.ResolveCallback = "ResolveGotoStmtLabel" ->
         Stmts[Ref.Statement].Destination
    [] Ref.ResolveCallback = "ResolveAssignStmtLabel" ->
         Stmts[Ref.Statement].Address
    [] Ref.ResolveCallback = "ResolveAssignedGotoStmtLabel" ->
         Stmts[Ref.Statement].AllowedValues[Ref.ResolveCallbackData + 1]
    [] Ref.ResolveCallback = "ResolveDoStmtLabel" ->
         Stmts[Ref.Statement].TerminatingStmt

Undeclared == SelectSeq(Diags,
                LAMBDA D : D.ID = "err_undeclared_stmt_label_use")

EnqueuedFor(StmtLabel) ==
  {i \in 1..Len(Enqueued) : Enqueued[i].StmtLabel = StmtLabel}

\* C2: at the end of a unit every forward reference enqueued during the unit
\* is handled exactly once: its callback is invoked with the statement that
\* declares the label (and patches its statement), or one 'undeclared
\* statement label' diagnostic is reported for it; the list is then empty.
C2_ForwardReferencesSettled ==
  Popped =>
    /\ ForwardStmtLabelDeclsInScope = <<>>
    /\ Len(PopTrace) = Len(Enqueued)
    /\ \A i \in 1..Len(Enqueued) :
         Cardinality({j \in 1..Len(PopTrace) :
                        PopTrace[j].Ref = Enqueued[i]}) = 1
    /\ \A j \in 1..Len(PopTrace) :
         LET Decl == FirstLabelled(PopTrace[j].Ref.StmtLabel)
         IN IF Decl # 0
            THEN /\ PopTrace[j].Callback = Decl /\ ~PopTrace[j].Diag
                 /\ RefField(PopTrace[j].Ref) = Decl
            ELSE /\ PopTrace[j].Callback = 0 /\ PopTrace[j].Diag
                 /\ RefField(PopTrace[j].Ref) = 0
    /\ \A l \in Labels :
         Len(SelectSeq(Undeclared, LAMBDA D : D.Arg = l)) =
           IF FirstLabelled(l) = 0 THEN Cardinality(EnqueuedFor(l)) ELSE 0

C2_Witness ==
  /\ Popped
  /\ \E i, j \in 1..Len(Enqueued) :
       /\ FirstLabelled(Enqueued[i].StmtLabel) # 0
       /\ FirstLabelled(Enqueued[j].StmtLabel) = 0

\* The slots of the statement just built, as pairs <<label, field>>.
EarlierLabelled(StmtLabel, R) ==
  LET I == {i \in 1..(R - 1) : Stmts[i].StmtLabel = StmtLabel}
  IN IF I = {} THEN 0 ELSE CHOOSE i \in I : \A j \in I : i <= j

ForwardDeclsOf(R) ==
  SelectSeq(ForwardStmtLabelDeclsInScope, LAMBDA F : F.Statement = R)

\* C3: a GOTO, an ASSIGN and each slot of an assigned GOTO holds a direct
\* reference to the declaring statement when the label is declared before
\* the statement is built, and no forward reference is enqueued for it;
\* otherwise the field is empty and exactly one forward reference is
\* enqueued (carrying the slot index), and when the label is declared in
\* the unit the field refers to the declaring statement after the end of
\* the unit.
C3_LabelReferences ==
  /\ (Last.Op = "ActOnGotoStmt" /\ Last.Result # 0) =>
       LET Decl == EarlierLabelled(Last.Target, Last.Result)
       IN /\ Stmts[Last.Result].Destination = Decl
          /\ ForwardDeclsOf(Last.Result) =
               IF Decl # 0 THEN <<>>
               ELSE <<[StmtLabel |-> Last.Target, Statement |-> Last.Result,
                       ResolveCallback |-> "ResolveGotoStmtLabel",
                       ResolveCallbackData |-> 0]>>
  /\ (Last.Op = "ActOnAssignStmt" /\ Last.Result # 0) =>
       LET Decl == EarlierLabelled(Last.Target, Last.Result)
       IN /\ Stmts[Last.Result].Address = Decl
          /\ ForwardDeclsOf(Last.Result) =
               IF Decl # 0 THEN <<>>
               ELSE <<[StmtLabel |-> Last.Target, Statement |-> Last.Result,
                       ResolveCallback |-> "ResolveAssignStmtLabel",
                       ResolveCallbackData |-> 0]>>
  /\ (Last.Op = "ActOnAssignedGotoStmt" /\ Last.Result # 0) =>
       LET Slots == 1..Len(Last.Allowed)
           Decl(I) == EarlierLabelled(Last.Allowed[I], Last.Result)
           Fwd == ForwardDeclsOf(Last.Result)
       IN /\ Len(Stmts[Last.Result].AllowedValues) = Len(Last.Allowed)
          /\ \A I \in Slots : Stmts[Last.Result].AllowedValues[I] = Decl(I)
          /\ Len(Fwd) = Cardinality({I \in Slots : Decl(I) = 0})
          /\ \A I \in Slots :
               Cardinality({k \in 1..Len(Fwd) :
                  Fwd[k] = [StmtLabel |-> Last.Allowed[I],
                            Statement |-> Last.Result,
                            ResolveCallback |-> "ResolveAssignedGotoStmtLabel",
                            ResolveCallbackData |-> I - 1]})
                 = IF Decl(I) = 0 THEN 1 ELSE 0
  /\ Popped =>
       \A i \in 1..Len(Enqueued) :
         FirstLabelled(Enqueued[i].StmtLabel) # 0 =>
           RefField(Enqueued[i]) = FirstLabelled(Enqueued[i].StmtLabel)

C3_Witness ==
  /\ Popped
  /\ \E i \in 1..Len(Enqueued) :
       /\ Enqueued[i].ResolveCallback = "ResolveAssignedGotoStmtLabel"
       /\ Enqueued[i].ResolveCallbackData = 1
       /\ RefField(Enqueued[i]) # 0
       /\ RefField(Enqueued[i]) = FirstLabelled(Enqueued[i].StmtLabel)

\* C5: at the end of a unit the forward references are processed in the
\* order in which they were enqueued, and so are their diagnostics.
C5_InsertionOrder ==
  Popped =>
    /\ [j \in 1..Len(PopTrace) |-> PopTrace[j].Ref] = Enqueued
    /\ [k \in 1..Len(Undeclared) |-> Undeclared[k].Arg] =
         LET Missing == SelectSeq(Enqueued,
                          LAMBDA F : FirstLabelled(F.StmtLabel) = 0)
         IN [k \in 1..Len(Missing) |-> Missing[k].StmtLabel]

C5_Witness ==
  /\ Popped
  /\ Len(Undeclared) = 2
  /\ Undeclared[1].Arg # Undeclared[2].Arg
  /\ Enqueued[1].StmtLabel = Undeclared[1].Arg

\* C4 as stated: when the terminating label of a DO is already declared,
\* ActOnDoStmt builds the DO with a direct reference to the declaring
\* statement, enqueues no forward reference and reports nothing.
C4_Original ==
  [][(Last'.Op = "ActOnDoStmt" /\ Last'.OK /\ Resolve(Last'.Target) # 0) =>
       /\ Last'.Result # 0
       /\ Len(Stmts') = Len(Stmts) + 1
       /\ Stmts'[Last'.Result].TerminatingStmt = Resolve(Last'.Target)
       /\ ForwardStmtLabelDeclsInScope' = ForwardStmtLabelDeclsInScope
       /\ Diags' = <<>>]_vars

\* C4: a DO's terminating label is not resolved eagerly: when the label is
\* already declared in the unit, ActOnDoStmt reports 'statement label must
\* be declared after DO' and returns the error sentinel; no DO statement is
\* built, no forward reference is enqueued and nothing is declared.
C4_Amended ==
  [][(Last'.Op = "ActOnDoStmt" /\ Last'.OK /\ Resolve(Last'.Target) # 0) =>
       /\ Last'.Result = 0
       /\ Diags' = <<Diag("err_stmt_label_must_decl_after",
                          Last'.Target, "DO")>>
       /\ UNCHANGED semaVars]_vars

C4_Witness ==
  /\ Last.Op = "ActOnDoStmt" /\ Last.OK /\ Last.Result = 0
  /\ FirstLabelled(Last.Target) # 0
  /\ Resolve(Last.Target) = FirstLabelled(Last.Target)

\* C6 as stated: after PopExecutableProgramUnit the label map, the
\* forward-reference list, IfStmtStack and DoStmtList are empty, and the
\* assertions of every PushExecutableProgramUnit hold.
C6_Original ==
  /\ ~AssertFailed
  /\ Popped =>
       /\ StmtLabelDeclsInScope = {}
       /\ ForwardStmtLabelDeclsInScope = <<>>
       /\ IfStmtStack = <<>>
       /\ DoStmtList = <<>>

NotInIfKw(op) ==
  CASE op = "ActOnElseStmt" -> "ELSE"
    [] op = "ActOnEndIfStmt" -> "END IF"
    [] op = "ActOnElseIfStmt" -> "ELSE IF"

\* C7: with no IF construct open, ELSE, END IF and ELSE IF (with a logical
\* condition) each report 'stmt not in IF', return the error sentinel, leave
\* IfStmtStack empty, build no statement and declare no label.
C7_NotInIf ==
  [][(/\ IfStmtStack = <<>>
      /\ Last'.Op \in {"ActOnElseStmt", "ActOnEndIfStmt", "ActOnElseIfStmt"}
      /\ Last'.OK) =>
       /\ Last'.Result = 0
       /\ Diags' = <<Diag("err_stmt_not_in_if", 0, NotInIfKw(Last'.Op))>>
       /\ IfStmtStack' = <<>>
       /\ StmtLabelDeclsInScope' = StmtLabelDeclsInScope
       /\ Stmts' = Stmts]_vars

C7_Witness ==
  /\ Last.Op = "ActOnEndIfStmt" /\ Last.OK /\ Last.Result = 0
  /\ Last.StmtLabel # 0 /\ Resolve(Last.StmtLabel) = 0
  /\ IfStmtStack = <<>>
  /\ Diags = <<Diag("err_stmt_not_in_if", 0, "END IF")>>

\* C8 as stated: once an ELSE has been accepted for the innermost open IF
\* construct, a further ELSE or ELSE IF before its END IF reports 'stmt not
\* in IF' and does not change the IF stack.
C8_Original ==
  [][(/\ IfStmtStack # <<>>
      /\ IfStmtStack[Len(IfStmtStack)] \in ElseOpen
      /\ Last'.Op \in {"ActOnElseStmt", "ActOnElseIfStmt"}
      /\ Last'.OK) =>
       /\ Last'.Result = 0
       /\ Diags' = <<Diag("err_stmt_not_in_if", 0, NotInIfKw(Last'.Op))>>
       /\ IfStmtStack' = IfStmtStack]_vars

IsBlockIf(S) == S.ID = "If" /\ S.Construct = "block"

IsEndIf(S) == S.ID = "EndIf"

BlockIfs == Cardinality({i \in 1..Len(Stmts) : IsBlockIf(Stmts[i])})

EndIfs == Cardinality({i \in 1..Len(Stmts) : IsEndIf(Stmts[i])})

OpenIfs == BlockIfs - EndIfs

ExpectedEndIfs ==
  SelectSeq(Diags, LAMBDA D : D.ID = "err_expected_kw" /\ D.Arg = "END IF")

\* C9: within a unit the depth of IfStmtStack is the number of block IFs
\* built minus the number of END IFs built; an accepted ELSE IF keeps the
\* depth, becomes the top and is linked as the previous top's else; at the
\* end of the unit one 'expected END IF' is reported per construct still
\* open and the stack is cleared.
C9_IfDepth ==
  /\ [](/\ InBody => Len(IfStmtStack) = OpenIfs
        /\ Popped => /\ IfStmtStack = <<>>
                     /\ Len(ExpectedEndIfs) = OpenIfs)
  /\ [][(Last'.Op = "ActOnElseIfStmt" /\ Last'.Result # 0) =>
          /\ Len(IfStmtStack') = Len(IfStmtStack)
          /\ IfStmtStack'[Len(IfStmtStack')] = Last'.Result
          /\ SubSeq(IfStmtStack', 1, Len(IfStmtStack') - 1) =
               SubSeq(IfStmtStack, 1, Len(IfStmtStack) - 1)
          /\ Stmts'[IfStmtStack[Len(IfStmtStack)]].ElseStmt = Last'.Result
        ]_vars

C9_Witness ==
  /\ Popped
  /\ BlockIfs = 2
  /\ EndIfs = 1
  /\ Len(ExpectedEndIfs) = 1

\* The terminators the rule for DO names, of those the front end builds.
IsLogicalIf(S) == S.ID = "If" /\ S.Construct = "logical"

ForbiddenTerminator(S) ==
  \/ S.ID \in {"Goto", "AssignedGoto", "Stop", "EndProgram", "Do", "Else",
               "EndIf"}
  \/ S.ID = "If" /\ S.Construct \in {"block", "elseif"}
  \/ /\ IsLogicalIf(S)
     /\ \/ S.ThenStmt = 0
        \/ Stmts[S.ThenStmt].ID \in {"Do", "If", "Else", "EndIf",
                                     "EndProgram"}

InvalidDoTerminators(D) ==
  SelectSeq(Diags, LAMBDA G : G.ID = "err_invalid_do_terminating_stmt"
                              /\ G.Arg = D)

\* C10 as stated: at the end of a unit, for every DO whose terminating label
\* resolved, exactly one 'invalid DO terminating stmt' is reported if and
\* only if the terminator is one the rule forbids (END among them), none
\* otherwise, and DoStmtList is cleared.
C10_Original ==
  Popped =>
    /\ DoStmtList = <<>>
    /\ \A D \in 1..Len(Stmts) :
         (Stmts[D].ID = "Do" /\ Stmts[D].TerminatingStmt # 0) =>
           Len(InvalidDoTerminators(D)) =
             IF ForbiddenTerminator(Stmts[Stmts[D].TerminatingStmt])
             THEN 1 ELSE 0


ArithmeticTypes == {"Integer", "Real", "DoublePrecision", "Complex"}

ConversionFor(T) ==
  CASE T = "Integer" -> "INT" [] T = "Real" -> "REAL"
    [] T = "DoublePrecision" -> "DBLE" [] T = "Complex" -> "CMPLX"

\* C11: for every pair (LHS, RHS) of the six intrinsic types,
\* ActOnAssignmentStmt builds an assignment with the RHS unwrapped when the
\* types are equal, with the RHS wrapped in exactly one conversion chosen by
\* the LHS type when both are arithmetic and differ, and reports
\* 'incompatible assignment' without building a statement for every pair
\* that mixes Logical or Character with another type.
C11_AssignmentTable ==
  Last.Op = "ActOnAssignmentStmt" =>
    IF Last.Result # 0
    THEN LET S == Stmts[Last.Result]
             L == S.LHS.Type
         IN /\ S.ID = "Assignment"
            /\ \A i \in 1..Len(Diags) :
                 Diags[i].ID # "err_typecheck_assign_incompatible"
            /\ L \in IntrinsicTypes
            /\ \/ S.RHS = TypedExpr(L)
               \/ /\ L \in ArithmeticTypes
                  /\ S.RHS.Kind = "Conversion"
                  /\ S.RHS.Op = ConversionFor(L)
                  /\ S.RHS.Expr.Kind = "Operand"
                  /\ S.RHS.Expr.Type \in ArithmeticTypes \ {L}
    ELSE /\ Len(Diags) = 1
         /\ Diags[1].ID = "err_typecheck_assign_incompatible"
         /\ LET L == Diags[1].Arg[1]
                R == Diags[1].Arg[2]
            IN \/ L \notin IntrinsicTypes \/ R \notin IntrinsicTypes
               \/ L # R /\ {L, R} \cap {"Logical", "Character"} # {}

C11_Witness ==
  /\ Last.Op = "ActOnAssignmentStmt" /\ Last.Result # 0
  /\ Stmts[Last.Result].LHS = TypedExpr("Integer")
  /\ Stmts[Last.Result].RHS = ConversionExpr("INT", TypedExpr("Real"))


\* The letters a letter spec covers.
Covered(LetterSpec) ==
  toupper(LetterSpec[1][1])..
    (IF LetterSpec[2] # <<>> THEN toupper(LetterSpec[2][1])
     ELSE toupper(LetterSpec[1][1]))

\* C14: on one ImplicitTypingScope the none flag and a non-empty rule map
\* never hold together and a letter has at most one rule; once none is set
\* Apply returns false and adds no rule; once a rule exists ApplyNone returns
\* false and leaves none unset; a rule is never removed or remapped, and an
\* Apply covering a letter that has a rule returns false.
C14_ImplicitScope ==
  /\ [](/\ ~(None /\ Rules # {})
        /\ \A p, q \in Rules : p[1] = q[1] => p = q)
  /\ [][/\ (Last'.Op = "Apply" /\ None) =>
             (Last'.Result = FALSE /\ Rules' = Rules)
        /\ (Last'.Op = "ApplyNone" /\ Rules # {}) =>
             (Last'.Result = FALSE /\ None' = FALSE /\ Rules' = Rules)
        /\ Rules \subseteq Rules'
        /\ (/\ Last'.Op = "Apply"
            /\ \E p \in Rules : p[1] \in Covered(Last'.Args[1])) =>
             Last'.Result = FALSE
       ]_vars

C14_Witness ==
  /\ Last.Op = "Apply" /\ Last.Result = FALSE /\ ~None
  /\ Last.Args[1][2] # <<>>
  /\ \E p \in Rules : p[1] \in Covered(Last.Args[1]) /\ p[2] # Last.Args[2]
  /\ \E p \in Rules : p[1] \in Covered(Last.Args[1]) /\ p[2] = Last.Args[2]


\* C30 as stated: an Apply that returns false (none is set, or a letter of
\* the letter range already has a rule) leaves the rule map exactly as it was
\* before the call, for single letters and for every letter range.
C30_Original ==
  [][(Last'.Op = "Apply" /\ Last'.Result = FALSE) => Rules' = Rules]_vars


C12_DefaultImplicitType ==
  (Last.Op = "ActOnImplicitEntityDecl" /\ Last.Result # 0) =>
    LET VD == VarDecls[Last.Result]
        First == VD.Name[1]
        Upper == IF First \in 97..122 THEN First - 32 ELSE First
    IN /\ VD.Name = Last.Args[1]
       /\ VD.Type = IF Upper \in 73..78 THEN "Integer" ELSE "Real"

C12_Witness ==
  /\ Last.Op = "ActOnImplicitEntityDecl" /\ Last.Result # 0
  /\ VarDecls[Last.Result].Name = <<105>>
  /\ VarDecls[Last.Result].Type = "Integer"
  /\ \E v \in 1..Len(VarDecls) :
       VarDecls[v].Name = <<111>> /\ VarDecls[v].Type = "Real"

\* C15: ActOnEntityDecl on an identifier whose payload is a variable of the
\* current context reports 'variable already declared' with a note at the
\* prior declaration, returns null and changes neither the context nor the
\* payload; in every other case it appends exactly one VarDecl to the
\* current context and makes it the payload, a variable of the same name in
\* another program unit notwithstanding.
C15_EntityDecl ==
  [][Last'.Op = "ActOnEntityDecl" =>
       LET IDInfo == Last'.Args[2]
           Prev == FETokenInfo[IDInfo]
       IN IF Prev # 0 /\ VarDecls[Prev].DC = CurContext
          THEN /\ Last'.Result = 0
               /\ Diags' = <<Diag("variable already declared", 0, IDInfo),
                             Diag("note: previous declaration", Prev, 0)>>
               /\ DeclContexts' = DeclContexts
               /\ VarDecls' = VarDecls
               /\ FETokenInfo' = FETokenInfo
          ELSE /\ Last'.Result = Len(VarDecls) + 1
               /\ Len(VarDecls') = Len(VarDecls) + 1
               /\ VarDecls'[Last'.Result].Name = IDInfo
               /\ VarDecls'[Last'.Result].DC = CurContext
               /\ DeclContexts'[CurContext].Decls =
                    Append(DeclContexts[CurContext].Decls,
                           <<"Var", Last'.Result>>)
               /\ \A c \in 1..Len(DeclContexts) :
                    c # CurContext => DeclContexts'[c] = DeclContexts[c]
               /\ FETokenInfo' = [FETokenInfo EXCEPT ![IDInfo] = Last'.Result]
               /\ Diags' = <<>>]_vars

C15_Witness ==
  /\ Last.Op = "ActOnEntityDecl" /\ Last.Result = 2
  /\ VarDecls[1].Name = VarDecls[2].Name
  /\ VarDecls[1].DC # VarDecls[2].DC
  /\ DeclContexts[VarDecls[1].DC].Kind = "MainProgram"
  /\ DeclContexts[VarDecls[2].DC].Kind = "MainProgram"


\* The implicit-typing scope the IMPLICIT statements of the unit describe:
\* each statement applied in turn to an empty scope.
RECURSIVE ApplySpecs(_, _, _, _)
ApplySpecs(scope, Specs, Ty, I) ==
  IF I > Len(Specs) THEN scope
  ELSE ApplySpecs(
         [None |-> scope.None,
          Rules |-> ApplyRules(scope.None, scope.Rules, Specs[I], Ty).Rules],
         Specs, Ty, I + 1)

RECURSIVE ScopeOfUnit(_, _)
ScopeOfUnit(stmts, I) ==
  IF I = 0 THEN [None |-> FALSE, Rules |-> {}]
  ELSE LET scope == ScopeOfUnit(stmts, I - 1)
       IN IF stmts[I].ID # "Implicit" THEN scope
          ELSE IF stmts[I].None
          THEN [None |-> ApplyNoneTo(scope.None, scope.Rules).None,
                Rules |-> scope.Rules]
          ELSE ApplySpecs(scope, stmts[I].LetterSpecs, stmts[I].Ty, 1)

\* C13 as stated: the type of an undeclared identifier is looked up in the
\* implicit-typing scope of the unit: under IMPLICIT NONE 'no implicit type'
\* is reported and no variable is synthesized; under a rule for the
\* upper-cased first letter the variable has the rule's type; the I..N
\* default is used only when neither applies.
C13_Original ==
  [][(Last'.Op = "ActOnImplicitEntityDecl"
      /\ FETokenInfo[Last'.Args[1]] = 0) =>
       LET IDInfo == Last'.Args[1]
           scope == ScopeOfUnit(Stmts, Len(Stmts))
           Rule == ResolveRule(scope.None, scope.Rules, IDInfo)
       IN CASE Rule[1] = "NoneRule" ->
                 /\ Last'.Result = 0
                 /\ VarDecls' = VarDecls
                 /\ Len(Diags') = 1
            [] Rule[1] = "TypeRule" ->
                 /\ Last'.Result # 0
                 /\ VarDecls'[Last'.Result].Type = Rule[2]
            [] Rule[1] = "DefaultRule" ->
                 /\ Last'.Result # 0
                 /\ VarDecls'[Last'.Result].Type =
                      ActOnTypeName(ImplicitTypeSpec(IDInfo))]_vars


\* The classified token stream of the buffer, ended by tok::eof.
Classified ==
  [I \in 1..(Len(Source) + 1) |-> ClassifyToken(LexerLex(I)).Kind]

\* The merge table of compound keywords: First, Next, Merged.
CompoundKeywords ==
  {<<"BLOCK", "DATA", "BLOCKDATA">>, <<"ELSE", "IF", "ELSEIF">>,
   <<"ELSE", "WHERE", "ELSEWHERE">>, <<"GO", "TO", "GOTO">>,
   <<"SELECT", "CASE", "SELECTCASE">>, <<"SELECT", "TYPE", "SELECTTYPE">>,
   <<"IN", "OUT", "INOUT">>, <<"DOUBLE", "PRECISION", "DOUBLEPRECISION">>}
    \cup {<<"END", B[1], B[2]>> :
            B \in {<<"IF", "ENDIF">>, <<"DO", "ENDDO">>,
                   <<"FUNCTION", "ENDFUNCTION">>, <<"FORALL", "ENDFORALL">>,
                   <<"WHERE", "ENDWHERE">>, <<"ENUM", "ENDENUM">>,
                   <<"SELECT", "ENDSELECT">>, <<"TYPE", "ENDTYPE">>,
                   <<"MODULE", "ENDMODULE">>, <<"PROGRAM", "ENDPROGRAM">>,
                   <<"ASSOCIATE", "ENDASSOCIATE">>, <<"FILE", "ENDFILE">>,
                   <<"INTERFACE", "ENDINTERFACE">>,
                   <<"BLOCKDATA", "ENDBLOCKDATA">>}}

\* The stream S from position I on with the compound keywords replaced, left
\* to right; each token with the position of the token that follows it.
RECURSIVE MergedStream(_, _)
MergedStream(S, I) ==
  IF I > Len(S) THEN <<>>
  ELSE IF /\ I + 2 <= Len(S)
          /\ S[I] = kw("END") /\ S[I + 1] = kw("BLOCK")
          /\ S[I + 2] = kw("DATA")
  THEN <<[Kind |-> kw("ENDBLOCKDATA"), After |-> I + 3]>>
         \o MergedStream(S, I + 3)
  ELSE IF /\ I + 1 <= Len(S)
          /\ \E M \in CompoundKeywords :
               S[I] = kw(M[1]) /\ S[I + 1] = kw(M[2])
  THEN <<[Kind |-> kw((CHOOSE M \in CompoundKeywords :
                         S[I] = kw(M[1]) /\ S[I + 1] = kw(M[2]))[3]),
          After |-> I + 2]>> \o MergedStream(S, I + 2)
  ELSE <<[Kind |-> S[I], After |-> I + 1]>> \o MergedStream(S, I + 1)

\* C17 as stated: the current tokens of the successive Parser::Lex calls are
\* the classified token stream with every pair of the merge table replaced
\* by its merged kind and nothing else merged, dropped or duplicated, and the
\* lookahead holds the token after the last one consumed.
C17_Original ==
  LET Expected == MergedStream(Classified, 1)
      N == Len(Produced)
  IN /\ N <= Len(Expected)
     /\ \A I \in 1..N : Produced[I].Kind = Expected[I].Kind
     /\ (N > 0 /\ Tok.Kind # tok_eof) =>
          NextTok.Kind = Classified[Expected[N].After]

\* The token the next Parser::Lex makes current, and its lookahead.
CurrentOfLex ==
  IF NextTok.Kind # tok_unknown THEN NextTok
  ELSE ClassifyToken(LexerLex(LexPos))

LookaheadOfLex ==
  ClassifyToken(LexerLex(IF NextTok.Kind # tok_unknown THEN LexPos
                         ELSE LexerNext(LexPos)))

\* C28: when the lookahead of a Parser::Lex is flagged as the start of a
\* statement, the current token keeps its own kind and the lookahead is left
\* as the token the next Lex returns: nothing is merged across the boundary.
C28_Original ==
  [][(Tok.Kind # tok_eof /\ LookaheadOfLex.StartOfStatement) =>
       (Tok' = CurrentOfLex /\ NextTok' = LookaheadOfLex)]_vars


\* An integer-typed expression built from integer literals, unary + and -,
\* the binary arithmetic operators and references to PARAMETERs.
RECURSIVE IntegerExpression(_)
IntegerExpression(E) ==
  CASE E.Kind = "IntegerConstantExpr" -> TRUE
    [] E.Kind = "UnaryExpr" ->
         E.Op \in {"Plus", "Minus"} /\ IntegerExpression(E.Expr)
    [] E.Kind = "BinaryExpr" ->
         /\ E.Op \in ArithmeticOperators
         /\ IntegerExpression(E.LHS) /\ IntegerExpression(E.RHS)
    [] E.Kind = "VarExpr" -> E.Parameter /\ IntegerExpression(E.Init)
    [] OTHER -> FALSE

NoValue == [Defined |-> FALSE, Value |-> MkInt(FALSE, <<>>)]
Value(Z) == IF FitsInt64(Z) THEN [Defined |-> TRUE, Value |-> Z] ELSE NoValue

\* X ** N by N multiplications from 1, each product within 64 bits.
RECURSIVE PowerValue(_, _, _)
PowerValue(X, N, Product) ==
  IF N = <<>> THEN Value(Product)
  ELSE IF ~FitsInt64(IntMul(Product, X)) THEN NoValue
  ELSE PowerValue(X, NatSub(N, <<1>>), IntMul(Product, X))

\* The value of X Op Y.
BinaryValue(Op, X, Y) ==
  CASE Op = "Plus" -> Value(IntAdd(X, Y))
    [] Op = "Minus" -> Value(IntSub(X, Y))
    [] Op = "Multiply" -> Value(IntMul(X, Y))
    [] Op = "Divide" -> IF Y.Mag = <<>> THEN NoValue ELSE Value(IntDiv(X, Y))
    [] Op = "Power" -> IF Y.Neg THEN NoValue
                       ELSE PowerValue(X, Y.Mag, MkInt(FALSE, <<1>>))

\* The mathematical value of an integer expression, defined when the value
\* of every sub-expression and its own fit in a signed 64-bit integer.
RECURSIVE MathValue(_)
MathValue(E) ==
  CASE E.Kind = "IntegerConstantExpr" -> Value(MkInt(FALSE, E.Value))
    [] E.Kind = "UnaryExpr" ->
         LET X == MathValue(E.Expr)
         IN IF ~X.Defined THEN NoValue
            ELSE IF E.Op = "Minus" THEN Value(IntNeg(X.Value)) ELSE X
    [] E.Kind = "BinaryExpr" ->
         LET X == MathValue(E.LHS)
             Y == MathValue(E.RHS)
         IN IF ~X.Defined \/ ~Y.Defined THEN NoValue
            ELSE BinaryValue(E.Op, X.Value, Y.Value)
    [] E.Kind = "VarExpr" -> MathValue(E.Init)

\* A step of the expression overflows 64 bits, a literal exceeds the signed
\* 64-bit maximum, or an exponent is negative.
RECURSIVE Overflows(_)
Overflows(E) ==
  CASE E.Kind = "IntegerConstantExpr" -> NatLess(MaxInt64, E.Value)
    [] E.Kind = "UnaryExpr" ->
         Overflows(E.Expr)
           \/ (MathValue(E.Expr).Defined /\ ~MathValue(E).Defined)
    [] E.Kind = "BinaryExpr" ->
         \/ Overflows(E.LHS) \/ Overflows(E.RHS)
         \/ /\ MathValue(E.LHS).Defined /\ MathValue(E.RHS).Defined
            /\ ~MathValue(E).Defined
            /\ ~(E.Op = "Divide" /\ MathValue(E.RHS).Value.Mag = <<>>)
    [] E.Kind = "VarExpr" -> Overflows(E.Init)

\* C18 as stated: for an integer expression EvaluateAsInt returns true with
\* the exact mathematical value when every intermediate and the final value
\* fit in a signed 64-bit integer, and returns false when a step overflows,
\* a literal exceeds the signed 64-bit maximum or an exponent is negative.
C18_Original ==
  (EvalPhase # "built" /\ IntegerExpression(ThisExpr)) =>
    /\ MathValue(ThisExpr).Defined =>
         /\ EvalPhase = "returned" /\ Success
         /\ Signed(IntResult) = MathValue(ThisExpr).Value
    /\ Overflows(ThisExpr) => (EvalPhase = "returned" /\ ~Success)

\* The expression contains a sub-expression that does not fold: one that is
\* no integer literal, unary + or -, binary arithmetic operator or reference
\* to a PARAMETER whose initializer folds.
RECURSIVE HasNonFoldable(_)
HasNonFoldable(E) ==
  CASE E.Kind = "IntegerConstantExpr" -> FALSE
    [] E.Kind = "UnaryExpr" ->
         E.Op \notin {"Plus", "Minus"} \/ HasNonFoldable(E.Expr)
    [] E.Kind = "BinaryExpr" ->
         \/ E.Op \notin ArithmeticOperators
         \/ HasNonFoldable(E.LHS) \/ HasNonFoldable(E.RHS)
    [] E.Kind = "VarExpr" -> ~E.Parameter \/ HasNonFoldable(E.Init)
    [] OTHER -> TRUE

\* C19 as stated: EvaluateAsInt returns false for every expression that is
\* not of Integer type and for every expression that contains a
\* sub-expression that does not fold.
C19_Original ==
  (EvalPhase # "built"
   /\ (~isIntegerType(ThisExpr.Type) \/ HasNonFoldable(ThisExpr))) =>
    (EvalPhase = "returned" /\ ~Success)


\* An integer division whose divisor evaluates to zero.
DivisionByZero(E) ==
  /\ E.Kind = "BinaryExpr" /\ E.Op = "Divide"
  /\ IntegerExpression(E)
  /\ MathValue(E.RHS).Defined /\ MathValue(E.RHS).Value.Mag = <<>>

\* C29 as stated: EvaluateAsInt never aborts on a division by zero; for a / b
\* with b evaluating to 0 it returns false, as it does for overflow.
C29_Original ==
  /\ EvalPhase # "trapped"
  /\ (EvalPhase # "built" /\ DivisionByZero(ThisExpr)) =>
       (EvalPhase = "returned" /\ ~Success)

\* The product of the sizes of the range sections.
RECURSIVE SizeProduct(_, _)
SizeProduct(S, I) ==
  IF I = 0 THEN 1
  ELSE (IF isRangeSection(S[I]) THEN S[I].Size ELSE 1) * SizeProduct(S, I - 1)

\* Each of the tuples Inner extended by the counter value C of the next
\* dimension, for C from From to below Size.
RECURSIVE Extended(_, _, _)
Extended(Inner, From, Size) ==
  IF From >= Size THEN <<>>
  ELSE [K \in 1..Len(Inner) |-> Append(Inner[K], From)]
         \o Extended(Inner, From + 1, Size)

\* The counter tuples of the dimensions 1..I in the order of a loop nest with
\* dimension 1 innermost; an element section has no counter (0).
RECURSIVE CounterTuples(_, _)
CounterTuples(S, I) ==
  IF I = 0 THEN <<<<>>>>
  ELSE IF isRangeSection(S[I])
  THEN Extended(CounterTuples(S, I - 1), 0, S[I].Size)
  ELSE Extended(CounterTuples(S, I - 1), 0, 1)

\* C20: the code emitted between EmitArrayIterationBegin and
\* EmitArrayIterationEnd runs the loop body once per counter tuple, in the
\* order of a nest with dimension 0 innermost and the last dimension
\* outermost, each counter running over [0, size); it runs the body (product
\* of the sizes) times in all and then exits.
C20_LoopNest ==
  /\ [](LET Expected == CounterTuples(Sections, Len(Sections))
        IN /\ Len(Visited) <= Len(Expected)
           /\ \A K \in 1..Len(Visited) : Visited[K] = Expected[K]
           /\ Exited => Len(Visited) = SizeProduct(Sections, Len(Sections)))
  /\ (EmitPhase = "emitted" ~> Exited)

\* A nest of two loops of two iterations has run its four bodies and exited.
C20_Witness ==
  /\ Exited
  /\ Len(Sections) = 2
  /\ \A I \in 1..2 : isRangeSection(Sections[I]) /\ Sections[I].Size = 2
  /\ Visited = <<<<0, 0>>, <<1, 0>>, <<0, 1>>, <<1, 1>>>>


----------------------------------------------------------------------------
\* The driver (tools/driver/Main.cpp)
\*
\* Main.cpp holds two drivers, each with its own ParseFile and main; Copy
\* tells which one is built.  The parse of the input file is modelled by the
\* diagnostics it reports.

\* The front end and the loop emitter are not in use.
FrontEndIdle ==
  /\ Stmts = <<>>
  /\ StmtLabelDeclsInScope = {}
  /\ ForwardStmtLabelDeclsInScope = <<>>
  /\ IfStmtStack = <<>>
  /\ DoStmtList = <<>>
  /\ Diags = <<>>
  /\ Last = Call("Sema", 0, 0, <<>>, TRUE, 0)
  /\ Phase = "outside"
  /\ AssertFailed = FALSE
  /\ Enqueued = <<>>
  /\ PopTrace = <<>>
  /\ ElseOpen = {}
  /\ CurContext = 0
  /\ DeclContexts = <<[Kind |-> "TranslationUnit", Parent |-> 0,
                       Name |-> <<>>, Decls |-> <<>>]>>
  /\ VarDecls = <<>>
  /\ FETokenInfo = [n \in Names |-> 0]
  /\ DeclAssertFailed = {}
  /\ Entered = <<>>
  /\ None = FALSE
  /\ Rules = {}
  /\ Source = <<>>
  /\ LexPos = 1
  /\ Tok = StartToken
  /\ NextTok = StartToken
  /\ Produced = <<>>
  /\ ThisExpr = IntegerConstantExpr(<<>>)
  /\ EvalPhase = "built"
  /\ Success = FALSE
  /\ IntResult = <<>>
  /\ NoLoopNest

frontVars == <<unitVars, declVars, scopeVars, lexVars, evalVars, loopVars>>

Backend_EmitObj == "Backend_EmitObj"
Backend_EmitAssembly == "Backend_EmitAssembly"
Backend_EmitLL == "Backend_EmitLL"

\* The output name is the file name with its extension replaced.
GetOutputName(Filename, Action) ==
  CASE Action = Backend_EmitObj -> <<Filename, ".o">>
    [] Action = Backend_EmitAssembly -> <<Filename, ".s">>
    [] Action = Backend_EmitLL -> <<Filename, ".ll">>

\* Diag.hadErrors() and Diag.hadWarnings() after the parse of the input.
hadErrors == Input.Errors > 0

hadWarnings == Input.Warnings > 0

\* BackendAction BA of ParseFile.
BA ==
  IF Options.EmitLLVM THEN Backend_EmitLL
  ELSE IF Options.EmitASM THEN Backend_EmitAssembly
  ELSE Backend_EmitObj

\* The condition under which ParseFile emits.
Emits ==
  IF Copy = 1 THEN ~Options.SyntaxOnly /\ ~hadErrors
  ELSE ~Options.SyntaxOnly

\* What ParseFile returns once the input is open.
ParseFileResult ==
  IF Copy = 1 THEN hadErrors ELSE hadErrors \/ hadWarnings

\* main calls ParseFile.  DriverPC becomes "failed" when ParseFile returned
\* true and "parsed" when it returned false.
ParseFile ==
  /\ DriverPC = "main"
  /\ IF ~Input.Opens
     THEN /\ DriverPC' = "failed"
          /\ UNCHANGED <<CodeGens, OutputFiles, Written>>
     ELSE /\ IF Emits
             THEN /\ CodeGens' = CodeGens + 1
                  /\ IF Options.OutputFile = "-"
                     THEN /\ Written' = Append(Written, "-")
                          /\ UNCHANGED OutputFiles
                     ELSE /\ OutputFiles' =
                               IF Copy = 1
                               THEN Append(OutputFiles,
                                           GetOutputName(Input.Filename, BA))
                               ELSE OutputFiles
                          /\ Written' =
                               Append(Written,
                                      GetOutputName(Input.Filename, BA))
             ELSE UNCHANGED <<CodeGens, OutputFiles, Written>>
          /\ DriverPC' = IF ParseFileResult THEN "failed" ELSE "parsed"
  /\ UNCHANGED <<Options, Input, Copy, Commands, ExitStatus, frontVars,
                 asideDriver>>

\* The condition under which the first main links; the second never does.
Links ==
  /\ Copy = 1
  /\ DriverPC = "parsed"
  /\ ~Options.CompileOnly /\ ~Options.EmitLLVM /\ ~Options.EmitASM

\* The command is gcc, the output files, the link options, libflang and
\* the output option.
LinkFiles ==
  /\ Links
  /\ Commands' = Append(Commands,
                        <<"gcc">> \o OutputFiles \o <<"-l", "libflang">>
                        \o (IF Options.OutputFile # ""
                            THEN <<"-o", Options.OutputFile>> ELSE <<>>))
  /\ DriverPC' = "linked"
  /\ UNCHANGED <<Options, Input, Copy, CodeGens, OutputFiles, Written,
                 ExitStatus, frontVars, asideDriver>>

\* main returns HadErrors, respectively Res.
main ==
  /\ DriverPC \in {"parsed", "failed", "linked"}
  /\ ~Links
  /\ ExitStatus' = IF DriverPC = "failed" THEN 1 ELSE 0
  /\ DriverPC' = "exited"
  /\ UNCHANGED <<Options, Input, Copy, CodeGens, OutputFiles, Written,
                 Commands, frontVars, asideDriver>>

OutputFileOptions == {"", "-", "a.out"}

\* The driver started on each command line and each input file.
InitDriver ==
  /\ FrontEndIdle
  /\ Options \in [SyntaxOnly : BOOLEAN, CompileOnly : BOOLEAN,
                  EmitLLVM : BOOLEAN, EmitASM : BOOLEAN,
                  OutputFile : OutputFileOptions]
  /\ Input \in [Filename : {"t.f95"}, Opens : BOOLEAN,
                Errors : 0..MaxDiags, Warnings : 0..MaxDiags]
  /\ Copy \in {1, 2}
  /\ DriverPC = "main"
  /\ CodeGens = 0
  /\ OutputFiles = <<>>
  /\ Written = <<>>
  /\ Commands = <<>>
  /\ ExitStatus = -1
  /\ IdleAsideDriver

NextDriver ==
  \/ ParseFile
  \/ LinkFiles
  \/ main

SpecDriver == InitDriver /\ [][NextDriver]_vars


----------------------------------------------------------------------------
\* Properties of the driver

\* The parse of the input reported at least one error diagnostic.
ErrorEmitted == Input.Opens /\ Input.Errors > 0

\* C21: when the parse of the input reported at least one error diagnostic,
\* the driver creates no code generator, writes no output and runs no
\* linker command, and the exit status it returns is not zero.
C21_Original ==
  ErrorEmitted =>
    /\ CodeGens = 0
    /\ Written = <<>>
    /\ Commands = <<>>
    /\ DriverPC = "exited" => ExitStatus # 0

\* C22: with -fsyntax-only the driver creates no code generator, writes no
\* output and runs no linker command, whatever the input and the other
\* options are.
C22_Original ==
  Options.SyntaxOnly =>
    /\ CodeGens = 0
    /\ Written = <<>>
    /\ Commands = <<>>


----------------------------------------------------------------------------
\* Qualifiers (AST/Type.h)
\*
\* A uint32_t is the set of the positions of its bits that are 1, bit 0
\* being the least significant one.

Word == 0..31

BitAnd(A, B) == A \cap B

BitOr(A, B) == A \cup B

BitNot(A) == Word \ A

\* A << N and A >> N on uint32_t.
ShiftLeft(A, N) == {B + N : B \in A} \cap Word

ShiftRight(A, N) == {B - N : B \in A} \cap Word

\* enum TQ
Allocatable == {0}

Parameter == {1}

Volatile == {2}

APVMask == BitOr(BitOr(Allocatable, Parameter), Volatile)

\* enum ExtAttr
ExtAttr ==
  [EA_None |-> {}, Asynchronous |-> {0}, Contiguous |-> {1},
   Optional |-> {2}, Pointer |-> {3}, Save |-> {4}, Target |-> {5},
   Value |-> {6}]

\* enum IntentAttr
IntentAttr == [IA_None |-> {}, In |-> {0}, Out |-> {1}, InOut |-> {0, 1}]

\* 0xFFFFF
MaxAddressSpace == 0..19

ExtAttrShift == 3

\* 0x3F << ExtAttrShift
ExtAttrMask == ShiftLeft(0..5, ExtAttrShift)

IntentAttrShift == 10

\* 0x3 << IntentAttrShift
IntentAttrMask == ShiftLeft(0..1, IntentAttrShift)

AddressSpaceShift == 12

AddressSpaceMask == BitNot(BitOr(BitOr(APVMask, ExtAttrMask), IntentAttrMask))

\* The getters, on a mask M.
getAPVQualifiers(M) == BitAnd(M, APVMask)

hasExtAttr(M) == BitAnd(M, ExtAttrMask) # {}

getExtAttr(M) == ShiftRight(BitAnd(M, ExtAttrMask), ExtAttrShift)

hasIntentAttr(M) == BitAnd(M, IntentAttrMask) # {}

getIntentAttr(M) == ShiftRight(BitAnd(M, IntentAttrMask), IntentAttrShift)

hasAddressSpace(M) == BitAnd(M, AddressSpaceMask) # {}

getAddressSpace(M) == ShiftRight(M, AddressSpaceShift)

QCall(Op, Arg) == [Op |-> Op, Arg |-> Arg, Before |-> Mask]

setAPVQualifiers ==
  \E mask \in SUBSET APVMask :
    /\ Mask' = BitOr(BitAnd(Mask, BitNot(APVMask)), mask)
    /\ QLast' = QCall("setAPVQualifiers", mask)
    /\ UNCHANGED <<frontVars, asideQualifiers>>

\* setExtAttr, and removeExtAttr and addExtAttr, which call it.
setExtAttr ==
  \E name \in DOMAIN ExtAttr :
    LET type == ExtAttr[name]
    IN /\ Mask' = BitOr(BitAnd(Mask, BitNot(ExtAttrMask)),
                        ShiftLeft(type, ExtAttrShift))
       /\ QLast' = QCall("setExtAttr", type)
       /\ UNCHANGED <<frontVars, asideQualifiers>>

setIntentAttr ==
  \E name \in DOMAIN IntentAttr :
    LET type == IntentAttr[name]
    IN /\ Mask' = BitOr(BitAnd(Mask, BitNot(IntentAttrMask)),
                        ShiftLeft(type, IntentAttrShift))
       /\ QLast' = QCall("setIntentAttr", type)
       /\ UNCHANGED <<frontVars, asideQualifiers>>

\* The address spaces that are tried: 0, the powers of two below
\* 2^MaxSpaceBits, and the largest one.
AddressSpaces ==
  {{}} \cup {{B} : B \in 0..(MaxSpaceBits - 1)} \cup {MaxAddressSpace}

\* The assert holds of every space that is tried.
setAddressSpace ==
  \E space \in AddressSpaces :
    /\ space \subseteq MaxAddressSpace
    /\ Mask' = BitOr(BitAnd(Mask, BitNot(AddressSpaceMask)),
                     ShiftLeft(space, AddressSpaceShift))
    /\ QLast' = QCall("setAddressSpace", space)
    /\ UNCHANGED <<frontVars, asideQualifiers>>

InitQualifiers ==
  /\ FrontEndIdle
  /\ IdleAsideQualifiers
  /\ Mask = {}
  /\ QLast = <<>>

NextQualifiers ==
  \/ setAPVQualifiers
  \/ setExtAttr
  \/ setIntentAttr
  \/ setAddressSpace

SpecQualifiers == InitQualifiers /\ [][NextQualifiers]_vars

\* C23: after setExtAttr(e) with e one of the seven extended attributes,
\* getExtAttr() returns e and hasExtAttr() is true, and the APV flags, the
\* intent and the address space, hasAddressSpace() included, are what they
\* were before the call.
C23_Original ==
  (QLast # <<>> /\ QLast.Op = "setExtAttr" /\ QLast.Arg # ExtAttr.EA_None) =>
    /\ getExtAttr(Mask) = QLast.Arg
    /\ hasExtAttr(Mask)
    /\ getAPVQualifiers(Mask) = getAPVQualifiers(QLast.Before)
    /\ getIntentAttr(Mask) = getIntentAttr(QLast.Before)
    /\ getAddressSpace(Mask) = getAddressSpace(QLast.Before)
    /\ hasAddressSpace(Mask) = hasAddressSpace(QLast.Before)


----------------------------------------------------------------------------
\* The element offset of an array reference (CodeGen/CGArray.cpp)
\*
\* The values are those the emitted multiplications and additions compute.
\* An Offset or a Stride of -1 is the null pointer.

ArrayRangeSection(Offset, Size, Stride) ==
  [Kind |-> "Range", Offset |-> Offset, Size |-> Size, Stride |-> Stride]

ArrayElementSection(Index) == [Kind |-> "Element", Index |-> Index]

ArraySection(Section, DimensionSize) ==
  [Section |-> Section, DimensionSize |-> DimensionSize]

getDimensionSize(S) == S.DimensionSize

hasOffset(Range) == Range.Offset # -1

hasStride(Range) == Range.Stride # -1

\* base + loop_index * stride, written with the offset inside the product
EmitSectionIndex_StrideOnOffset(S, Element) ==
  IF S.Section.Kind = "Range"
  THEN LET Range == S.Section
       IN (IF hasOffset(Range) THEN Range.Offset + Element ELSE Element)
          * (IF hasStride(Range) THEN Range.Stride ELSE 1)
  ELSE S.Section.Index

\* EmitSectionIndex of a section whose Elements[Dimension] has the value
\* Element.
EmitSectionIndex(S, Element) ==
  IF S.Section.Kind = "Range"
  THEN LET Range == S.Section
           StridedIndex == IF ~hasStride(Range) THEN Element
                           ELSE Element * Range.Stride
       IN IF hasOffset(Range) THEN Range.Offset + StridedIndex
          ELSE StridedIndex
  ELSE S.Section.Index

\* The iterations I, I + 1, ... of the loop of EmitElementOffset.
RECURSIVE OffsetLoop(_, _, _, _, _)
OffsetLoop(S, E, I, Offset, DimSizeProduct) ==
  IF I > Len(S) THEN Offset
  ELSE LET Sub == EmitSectionIndex(S[I], E[I]) * DimSizeProduct
       IN OffsetLoop(S, E, I + 1, Offset + Sub,
                     IF I + 1 <= Len(S)
                     THEN DimSizeProduct * getDimensionSize(S[I])
                     ELSE DimSizeProduct)

\* Dimension I of the source is S[I + 1].
EmitElementOffset(S, E) ==
  LET Offset == EmitSectionIndex(S[1], E[1])
  IN IF Len(S) > 1
     THEN OffsetLoop(S, E, 2, Offset, getDimensionSize(S[1]))
     ELSE Offset

\* EmitDimSection: the size of the range is the size of the dimension.
EmitDimSection(Offset, Size, Stride) ==
  ArraySection(ArrayRangeSection(Offset, Size, Stride), Size)

\* The sizes, offsets, strides and indices that are tried.
DimSizes == {1, MaxSize}

SectionsTried ==
  {EmitDimSection(Offset, Size, Stride) :
     Offset \in {-1, 1}, Size \in DimSizes, Stride \in {-1, 2}}
  \cup {ArraySection(ArrayElementSection(1), Size) : Size \in DimSizes}

\* The values Elements[I] can have in the loop body: a counter below the
\* size of the range, the null pointer (0) for an element section.
ElementsTried(S) ==
  {E \in [1..Len(S) -> 0..(MaxSize - 1)] :
     \A I \in 1..Len(S) :
       IF S[I].Section.Kind = "Range" THEN E[I] < S[I].Section.Size
       ELSE E[I] = 0}

\* EmitElementPointer in the loop body; the run is followed to one
\* execution of the body, for each value of the counters.
EmitElementPointer ==
  /\ ArraySections # <<>>
  /\ ElementOffset = -1
  /\ \E E \in ElementsTried(ArraySections) :
       /\ ElementValues' = E
       /\ ElementOffset' = EmitElementOffset(ArraySections, E)
  /\ UNCHANGED <<ArraySections, frontVars, asideReference>>

\* An array reference of each rank up to MaxRank.
InitReference ==
  /\ FrontEndIdle
  /\ IdleAsideReference
  /\ \E N \in 1..MaxRank : ArraySections \in [1..N -> SectionsTried]
  /\ ElementValues = <<>>
  /\ ElementOffset = -1

NextReference == EmitElementPointer

SpecReference == InitReference /\ [][NextReference]_vars

\* idx of the claim: offset + counter * stride, the offset 0 and the stride
\* 1 when absent; the stored index for an element section.
Idx(S, Counter) ==
  IF S.Section.Kind = "Range"
  THEN (IF S.Section.Offset = -1 THEN 0 ELSE S.Section.Offset)
       + Counter * (IF S.Section.Stride = -1 THEN 1 ELSE S.Section.Stride)
  ELSE S.Section.Index

\* The product of the dimension sizes of the first I dimensions.
RECURSIVE DimProduct(_, _)
DimProduct(S, I) ==
  IF I = 0 THEN 1 ELSE S[I].DimensionSize * DimProduct(S, I - 1)

\* The sum over the first I dimensions.
RECURSIVE LinearOffset(_, _, _)
LinearOffset(S, E, I) ==
  IF I = 0 THEN 0
  ELSE LinearOffset(S, E, I - 1) + Idx(S[I], E[I]) * DimProduct(S, I - 1)

WholeArray(S) ==
  \A I \in 1..Len(S) :
    /\ S[I].Section.Kind = "Range"
    /\ S[I].Section.Offset = -1
    /\ S[I].Section.Stride = -1

\* C24: the offset EmitElementOffset computes is the sum over the dimensions
\* of idx times the product of the sizes of the lower dimensions; for
\* whole-array sections the offsets of the counter tuples are one to one
\* onto 0 .. (product of the sizes) - 1.
C24_ElementOffset ==
  /\ ElementOffset # -1 =>
       ElementOffset = LinearOffset(ArraySections, ElementValues,
                                    Len(ArraySections))
  /\ (ArraySections # <<>> /\ WholeArray(ArraySections)) =>
       LET Tuples == ElementsTried(ArraySections)
           Offsets == {EmitElementOffset(ArraySections, E) : E \in Tuples}
           Size == DimProduct(ArraySections, Len(ArraySections))
       IN /\ Offsets = 0..(Size - 1)
          /\ Cardinality(Tuples) = Size

\* A reference of rank 3 with an offset and a stride in the second
\* dimension, in the last iteration of its loops.
C24_Witness ==
  /\ Len(ArraySections) = 3
  /\ ArraySections[1] = EmitDimSection(-1, MaxSize, -1)
  /\ ArraySections[2] = EmitDimSection(1, MaxSize, 2)
  /\ ArraySections[3] = EmitDimSection(-1, MaxSize, -1)
  /\ ElementValues = [I \in 1..3 |-> MaxSize - 1]
  /\ ElementOffset = LinearOffset(ArraySections, ElementValues, 3)
  /\ ElementOffset > 0


----------------------------------------------------------------------------
\* Call arguments and the ABI (CodeGen/CGCall.cpp, CodeGen/ABIInfo.h)
\*
\* A type is known by its class; the LLVM types and values are known by a
\* description.

TypeClasses == {"scalar", "complex", "character", "array"}

\* enum ABIArgInfo::Kind
ABIArgInfo ==
  {"Value", "Reference", "ReferenceAsVoidExtraSize", "Expand",
   "ExpandCharacterPutLengthToAdditionalArgsAsInt", "ComplexValueAsVector"}

\* The argument types each kind is documented for.
Documented(Kind) ==
  CASE Kind = "Value" -> TypeClasses
    [] Kind = "Reference" -> {"scalar", "complex"}
    [] Kind = "ReferenceAsVoidExtraSize" -> {"scalar", "complex"}
    [] Kind = "Expand" -> {"complex", "character"}
    [] Kind = "ExpandCharacterPutLengthToAdditionalArgsAsInt" -> {"character"}
    [] Kind = "ComplexValueAsVector" -> {"complex"}

ArgInfo(T, Kind) == [T |-> T, ABIInfo |-> Kind]

\* What ConvertArgumentType pushes: <<onto ArgTypes, onto
\* AdditionalArgTypes>>.
ConvertArgumentType(T, Kind) ==
  CASE Kind = "Value" -> <<<<"ConvertType(T)">>, <<>>>>
    [] Kind = "Reference" -> <<<<"ConvertType(T)*">>, <<>>>>
    [] Kind = "ReferenceAsVoidExtraSize" -> <<<<"VoidPtrTy", "Int32Ty">>, <<>>>>
    [] Kind = "Expand" ->
         IF T = "complex" THEN <<<<"ElementType", "ElementType">>, <<>>>>
         ELSE <<<<"Int8PtrTy", "SizeTy">>, <<>>>>
    [] Kind = "ExpandCharacterPutLengthToAdditionalArgsAsInt" ->
         <<<<"Int8PtrTy">>, <<"Int32Ty">>>>
    [] Kind = "ComplexValueAsVector" -> <<<<"ComplexTypeAsVector">>, <<>>>>

\* EmitCallArg(Args, CharacterValueTy, ArgInfo)
EmitCharacterCallArg(Kind) ==
  CASE Kind = "Value" -> <<<<"CharacterAggregate">>, <<>>>>
    [] Kind = "Expand" -> <<<<"Value.Ptr", "Value.Len">>, <<>>>>
    [] Kind = "ExpandCharacterPutLengthToAdditionalArgsAsInt" ->
         <<<<"Value.Ptr">>, <<"SExtOrTrunc(Value.Len)">>>>
    [] OTHER -> <<<<>>, <<>>>>

\* EmitArrayCallArg; the kind is Value for every documented pair.
EmitArrayCallArg(Kind) == <<<<"ArrayPtr">>, <<>>>>

\* EmitCallArg(Args, const Expr *E, ArgInfo), T the type of E: what it adds
\* to the arguments and to the additional arguments.  The switch has no
\* case for the three last kinds and adds nothing for them.
EmitCallArg(T, Kind) ==
  IF T = "character" THEN EmitCharacterCallArg(Kind)
  ELSE IF T = "array" THEN EmitArrayCallArg(Kind)
  ELSE CASE Kind = "Value" -> <<<<"ScalarExpr(E)">>, <<>>>>
         [] Kind = "Reference" -> <<<<"CallArgPtr(E)">>, <<>>>>
         [] Kind = "ReferenceAsVoidExtraSize" ->
              <<<<"BitCast(CallArgPtr(E))", "Int32(size)">>, <<>>>>
         [] OTHER -> <<<<>>, <<>>>>

\* The function type gets one more formal.
AddFormal ==
  /\ Len(Formals) < MaxArgs
  /\ Args = <<>> /\ AdditionalArgs = <<>> /\ ActualCounts = <<>>
  /\ \E Kind \in ABIArgInfo : \E T \in Documented(Kind) :
       LET Pushed == ConvertArgumentType(T, Kind)
       IN /\ Formals' = Append(Formals, ArgInfo(T, Kind))
          /\ ArgTypes' = ArgTypes \o Pushed[1]
          /\ AdditionalArgTypes' = AdditionalArgTypes \o Pushed[2]
          /\ FormalCounts' = Append(FormalCounts,
                                    <<Len(Pushed[1]), Len(Pushed[2])>>)
  /\ UNCHANGED <<Args, AdditionalArgs, ActualCounts, frontVars, asideCall>>

\* EmitCall: the next iteration of for(I = 0; I < Arguments.size(); ++I),
\* the actual argument having the type of its formal.
EmitCallArgument ==
  /\ Len(ActualCounts) < Len(Formals)
  /\ LET I == Len(ActualCounts) + 1
         Added == EmitCallArg(Formals[I].T, Formals[I].ABIInfo)
     IN /\ Args' = Args \o Added[1]
        /\ AdditionalArgs' = AdditionalArgs \o Added[2]
        /\ ActualCounts' = Append(ActualCounts,
                                  <<Len(Added[1]), Len(Added[2])>>)
  /\ UNCHANGED <<Formals, ArgTypes, AdditionalArgTypes, FormalCounts,
                 frontVars, asideCall>>

InitCall ==
  /\ FrontEndIdle
  /\ IdleAsideCall
  /\ NoCall

NextCall ==
  \/ AddFormal
  \/ EmitCallArgument

SpecCall == InitCall /\ [][NextCall]_vars

\* C25: for each kind and each argument type the kind is documented for,
\* EmitCallArg appends as many values to the arguments and to the additional
\* arguments as ConvertArgumentType appends types for the formal.
C25_Original ==
  \A I \in 1..Len(ActualCounts) : ActualCounts[I] = FormalCounts[I]


----------------------------------------------------------------------------
\* Inlining of statement functions (CodeGen/CGCall.cpp)
\*
\* The scopes are objects on the C++ stack: InlineScopes holds the live
\* ones, a pointer to a scope is its index, 0 is the null pointer.  The
\* emission of a body is followed from the construction of the scope to its
\* destruction; what the body emits in between are further calls and
\* references to formals.

\* The statement functions and their formals (VarDecls).
StmtFunctions == [F |-> <<"F.X">>, G |-> <<"G.Y", "G.Z">>]

\* The argument expressions that are tried: a constant and the formals.
Constants == {"1"}

\* The constructor's Args.insert of each pair; DenseMap::insert keeps the
\* first value of a key, and the formals are distinct.
InsertArgs(Formal, Arguments) ==
  {<<Formal[I], Arguments[I]>> : I \in 1..Len(Arguments)}

find(ArgsMap, Arg) == {P \in ArgsMap : P[1] = Arg}

\* getArgValue searching from the outermost scope inwards
RECURSIVE getArgValue_OutermostFirst(_, _)
getArgValue_OutermostFirst(Scope, Arg) ==
  LET result == find(InlineScopes[Scope].Args, Arg)
      Outer == InlineScopes[Scope].Previous
      Found == IF Outer = 0 THEN "nullptr"
               ELSE getArgValue_OutermostFirst(Outer, Arg)
  IN IF Found # "nullptr" THEN Found
     ELSE IF result # {} THEN (CHOOSE P \in result : TRUE)[2]
     ELSE "nullptr"

\* StatementFunctionInliningScope::getArgValue on the scope at index Scope.
\* The call on a null Previous does not happen for the formals that are
\* asked for.
RECURSIVE getArgValue(_, _)
getArgValue(Scope, Arg) ==
  LET result == find(InlineScopes[Scope].Args, Arg)
  IN IF result # {} THEN (CHOOSE P \in result : TRUE)[2]
     ELSE getArgValue(InlineScopes[Scope].Previous, Arg)

\* The formals some scope of the chain that starts at Scope binds.
RECURSIVE BoundFrom(_)
BoundFrom(Scope) ==
  IF Scope = 0 THEN {}
  ELSE {P[1] : P \in InlineScopes[Scope].Args}
       \cup BoundFrom(InlineScopes[Scope].Previous)

\* EmitStatementFunctionCall up to the emission of the body: the
\* constructor of Scope.  An argument expression refers to formals of the
\* functions being inlined only.
EmitStatementFunctionCall ==
  /\ Len(InlineScopes) < MaxNesting
  /\ \E Function \in DOMAIN StmtFunctions :
       \E Arguments \in [1..Len(StmtFunctions[Function]) ->
                           Constants \cup BoundFrom(CurInlinedStmtFunc)] :
         /\ InlineScopes' =
              Append(InlineScopes,
                     [Func |-> Function, Previous |-> CurInlinedStmtFunc,
                      Args |-> InsertArgs(StmtFunctions[Function],
                                          Arguments)])
         /\ CurInlinedStmtFunc' = Len(InlineScopes) + 1
         /\ InlineTrace' =
              Append(InlineTrace,
                     [Function |-> Function, Arguments |-> Arguments,
                      Before |-> CurInlinedStmtFunc])
  /\ UNCHANGED <<InlinedQuery, frontVars, asideInlining>>

\* EmitStatementFunctionCall returns: the destructor of its Scope, the
\* last object constructed.
ReturnFromStatementFunctionCall ==
  /\ InlineScopes # <<>>
  /\ CurInlinedStmtFunc' = InlineScopes[Len(InlineScopes)].Previous
  /\ InlineScopes' = SubSeq(InlineScopes, 1, Len(InlineScopes) - 1)
  /\ InlineTrace' = SubSeq(InlineTrace, 1, Len(InlineTrace) - 1)
  /\ UNCHANGED <<InlinedQuery, frontVars, asideInlining>>

\* A reference to a formal in what is being emitted.
GetInlinedArgumentValue ==
  /\ CurInlinedStmtFunc # 0
  /\ \E VD \in BoundFrom(CurInlinedStmtFunc) :
       InlinedQuery' = <<VD, getArgValue(CurInlinedStmtFunc, VD)>>
  /\ UNCHANGED <<InlineScopes, CurInlinedStmtFunc, InlineTrace, frontVars,
                 asideInlining>>

InitInlining ==
  /\ FrontEndIdle
  /\ IdleAsideInlining
  /\ NoInlining

NextInlining ==
  \/ EmitStatementFunctionCall
  \/ ReturnFromStatementFunctionCall
  \/ GetInlinedArgumentValue

SpecInlining == InitInlining /\ [][NextInlining]_vars

\* The calls of the trace that bind the formal VD, by position.
Binders(VD) ==
  {K \in 1..Len(InlineTrace) :
     \E I \in 1..Len(InlineTrace[K].Arguments) :
       StmtFunctions[InlineTrace[K].Function][I] = VD}

\* The actual argument the innermost call that binds VD was given for it.
InnermostBinding(VD) ==
  LET K == CHOOSE K \in Binders(VD) : \A J \in Binders(VD) : J <= K
      I == CHOOSE I \in 1..Len(InlineTrace[K].Arguments) :
             StmtFunctions[InlineTrace[K].Function][I] = VD
  IN InlineTrace[K].Arguments[I]

\* C26: when EmitStatementFunctionCall returns, CurInlinedStmtFunc is what
\* it was before the call; while a body is emitted GetInlinedArgumentValue
\* yields the actual argument of the innermost call that binds the formal.
C26_InliningStack ==
  /\ [][Len(InlineTrace') < Len(InlineTrace) =>
          CurInlinedStmtFunc' = InlineTrace[Len(InlineTrace)].Before]_vars
  /\ [][InlinedQuery' # InlinedQuery =>
          /\ Binders(InlinedQuery'[1]) # {}
          /\ InlinedQuery'[2] = InnermostBinding(InlinedQuery'[1])]_vars

\* F is being inlined inside F inside G, the two calls of F binding X
\* differently, and X was asked for in the inner one.
C26_Witness ==
  /\ Len(InlineTrace) = 3
  /\ InlineTrace[1].Function = "G"
  /\ InlineTrace[2] = [Function |-> "F", Arguments |-> <<"G.Y">>, Before |-> 1]
  /\ InlineTrace[3] = [Function |-> "F", Arguments |-> <<"1">>, Before |-> 2]
  /\ CurInlinedStmtFunc = 3
  /\ InlinedQuery = <<"F.X", "1">>


----------------------------------------------------------------------------
\* Parser::ParseProgramUnits (Parse/Parser.cpp)
\*
\* The parser is followed on the stream of the tokens Parser::Lex yields;
\* a position is the index of Parser::Tok in it, and past the end Tok is the
\* end of file, where Lex leaves it.

tok_statement_label == <<"statement_label">>

KindAt(P) == IF P <= Len(UnitTokens) THEN UnitTokens[P].Kind ELSE tok_eof

isAtStartOfStatement(P) ==
  IF P <= Len(UnitTokens) THEN UnitTokens[P].StartOfStatement ELSE FALSE

\* The position after a Lex() at position P.
LexAt(P) == IF P <= Len(UnitTokens) THEN P + 1 ELSE P

\* All of these yield the position the function leaves the parser at.
ParseStatementLabel(P) ==
  IF KindAt(P) # tok_statement_label THEN P ELSE LexAt(P)

\* Called with Tok the PROGRAM keyword.
ParsePROGRAMStmt(P) ==
  LET Name == LexAt(P)
  IN IF KindAt(Name) # tok_identifier \/ isAtStartOfStatement(Name)
     THEN Name
     ELSE LexAt(Name)

\* No token of the streams is USE, IMPORT, IMPLICIT or starts a type
\* declaration: the three loops are not entered and
\* ParseDeclarationConstructList ends after the first
\* ParseDeclarationConstruct, which parses a statement label.
ParseSpecificationPart(P) == ParseStatementLabel(P)

\* The rest of the statement is taken.
RECURSIVE ToEndOfStatement(_)
ToEndOfStatement(P) ==
  IF P > Len(UnitTokens) \/ isAtStartOfStatement(P) THEN P
  ELSE ToEndOfStatement(LexAt(P))

\* ParseExecutionPart: one executable construct, a statement.
ParseExecutableConstruct(P) ==
  IF P > Len(UnitTokens) THEN P ELSE ToEndOfStatement(LexAt(P))

ParseExecutionPart(P) == ParseExecutableConstruct(P)

\* END [PROGRAM [name]], nothing when Tok is not END.
ParseEND_PROGRAMStmt(P) ==
  IF KindAt(P) \notin {kw("END"), kw("ENDPROGRAM")} THEN P
  ELSE LET Name == LexAt(P)
       IN IF KindAt(Name) = tok_identifier /\ ~isAtStartOfStatement(Name)
          THEN LexAt(Name)
          ELSE Name

NotAtEnd(P) == KindAt(P) # kw("END") /\ KindAt(P) # kw("ENDPROGRAM")

ParseMainProgram(P) ==
  LET P1 == IF KindAt(P) = kw("PROGRAM")
            THEN ParseStatementLabel(ParsePROGRAMStmt(P))
            ELSE P
      P2 == IF NotAtEnd(P1)
            THEN ParseStatementLabel(ParseSpecificationPart(P1))
            ELSE P1
      P3 == IF NotAtEnd(P2)
            THEN ParseStatementLabel(ParseExecutionPart(P2))
            ELSE P2
  IN ParseEND_PROGRAMStmt(P3)

\* These three return at once.
ParseExternalSubprogram(P) == P

ParseModule(P) == P

ParseBlockData(P) == P

\* One evaluation of the condition of while (!ParseProgramUnit()).
ParseProgramUnit ==
  /\ UnitLoop = "running"
  /\ UnitCalls < MaxCalls
  /\ UnitCalls' = UnitCalls + 1
  /\ IF KindAt(UnitPos) = tok_eof
     THEN /\ UnitLoop' = "exited"
          /\ UnitLast' = [Returned |-> TRUE, Consumed |-> 0]
          /\ UNCHANGED UnitPos
     ELSE LET P == ParseStatementLabel(UnitPos)
              After ==
                CASE KindAt(P) \in {kw("FUNCTION"), kw("SUBPROGRAM")} ->
                       ParseExternalSubprogram(P)
                  [] KindAt(P) = kw("MODULE") -> ParseModule(P)
                  [] KindAt(P) = kw("BLOCKDATA") -> ParseBlockData(P)
                  [] OTHER -> ParseMainProgram(P)
          IN /\ UnitPos' = After
             /\ UnitLast' = [Returned |-> FALSE, Consumed |-> After - UnitPos]
             /\ UNCHANGED UnitLoop
  /\ UNCHANGED <<UnitTokens, frontVars, asideProgramUnits>>

\* The kinds of the tokens of the streams.
UnitKinds ==
  {tok_statement_label, tok_identifier, kw("PROGRAM"), kw("END"),
   kw("FUNCTION"), kw("MODULE"), kw("BLOCKDATA")}

\* ParseProgramUnits up to its loop, on each stream of at most MaxTokens
\* tokens; it flags the first token as the start of a statement.
InitProgramUnits ==
  /\ FrontEndIdle
  /\ IdleAsideProgramUnits
  /\ \E N \in 0..MaxTokens :
       UnitTokens \in [1..N -> [Kind : UnitKinds, StartOfStatement : BOOLEAN]]
  /\ Len(UnitTokens) > 0 => UnitTokens[1].StartOfStatement
  /\ UnitPos = 1
  /\ UnitLoop = "running"
  /\ UnitCalls = 0
  /\ UnitLast = <<>>

NextProgramUnits == ParseProgramUnit

SpecProgramUnits == InitProgramUnits /\ [][NextProgramUnits]_vars

\* C27: every call of ParseProgramUnit that returns false has consumed at
\* least one token, so that the loop of ParseProgramUnits reaches the end
\* of the stream and exits.
C27_Original ==
  /\ (UnitLast # <<>> /\ ~UnitLast.Returned) => UnitLast.Consumed >= 1
  /\ UnitCalls > Len(UnitTokens) => UnitLoop = "exited"

====
